---- MODULE Spec2Model ----
(***************************************************************************)
(* Model of the airtable-mcp-server tool dispatcher (handleCallTool), the  *)
(* generic search synthesizer and the Airtable service client.             *)
(*                                                                         *)
(* Strings that the code splits, trims or joins (ids, allow-list entries)  *)
(* are sequences of one-character strings.  Strings of which the code only *)
(* uses the length (field values, snippets) are records carrying a length. *)
(***************************************************************************)
EXTENDS Integers, Sequences, FiniteSets, TLC

\* ------------------------------------------------------------------------
\* Bounds of the model
\* ------------------------------------------------------------------------
MaxCfg == 3          \* largest numeric value tried for the two limit env vars
PageSize == 2        \* records per backend page
MaxWrites == 1       \* mutating backend operations per behaviour
MaxSessions == 2     \* GET requests (sessions) of the SSE endpoint per behaviour

\* ------------------------------------------------------------------------
\* Program constants
\* ------------------------------------------------------------------------
DefaultMaxTotal == 100
DefaultPerTableLimit == 10
SnippetMax == 400
MaxExtraFields == 8
DraftPerTableLimit == 10
DraftSnippetMax == 200

\* ------------------------------------------------------------------------
\* Generic sequence helpers
\* ------------------------------------------------------------------------
Range(s) == {s[i] : i \in 1..Len(s)}

Min(a, b) == IF a <= b THEN a ELSE b

Take(s, n) == IF n >= Len(s) THEN s ELSE SubSeq(s, 1, n)

RECURSIVE SumSeq(_)
SumSeq(s) == IF s = <<>> THEN 0 ELSE Head(s) + SumSeq(Tail(s))

\* Array.prototype.find on ids: index of the first element of s whose id is
\* the given one, 0 when there is none
FirstIndex(s, id) ==
    IF \E i \in 1..Len(s) : s[i].id = id
    THEN CHOOSE i \in 1..Len(s) : s[i].id = id /\ \A j \in 1..(i - 1) : s[j].id # id
    ELSE 0

\* ------------------------------------------------------------------------
\* String.prototype.split / trim on character sequences
\* ------------------------------------------------------------------------
RECURSIVE SplitAcc(_, _, _)
SplitAcc(s, sep, cur) ==
    IF s = <<>> THEN <<cur>>
    ELSE IF Head(s) = sep THEN <<cur>> \o SplitAcc(Tail(s), sep, <<>>)
    ELSE SplitAcc(Tail(s), sep, Append(cur, Head(s)))

Split(s, sep) == SplitAcc(s, sep, <<>>)

RECURSIVE TrimLeft(_)
TrimLeft(s) == IF s # <<>> /\ Head(s) = " " THEN TrimLeft(Tail(s)) ELSE s

RECURSIVE TrimRight(_)
TrimRight(s) ==
    IF s # <<>> /\ s[Len(s)] = " " THEN TrimRight(SubSeq(s, 1, Len(s) - 1)) ELSE s

Trim(s) == TrimRight(TrimLeft(s))

\* mutant: the separator between base and table is missing
JoinIdOneSeparator(a, b, c) == a \o b \o <<":">> \o c

\* `${a}:${b}:${c}`
JoinId(a, b, c) == a \o <<":">> \o b \o <<":">> \o c

\* ------------------------------------------------------------------------
\* Field values (z.any()): a tagged union.  len is the length of String(v)
\* for scalars and of JSON.stringify(v) for objects; txt names the content.
\* ------------------------------------------------------------------------
Undefined == [kind |-> "undefined", len |-> 0, txt |-> "", elems |-> <<>>]
Null == [kind |-> "null", len |-> 0, txt |-> "", elems |-> <<>>]
StrV(t, n) == [kind |-> "string", len |-> n, txt |-> t, elems |-> <<>>]
NumV(t, n) == [kind |-> "number", len |-> n, txt |-> t, elems |-> <<>>]
ObjV(t, n) == [kind |-> "object", len |-> n, txt |-> t, elems |-> <<>>]
ArrV(es) == [kind |-> "array", len |-> 0, txt |-> "", elems |-> es]

\* length of a field name
NameLen(name) ==
    CASE name = "Project Name" -> 12
      [] name = "Project Complete Address" -> 24
      [] name = "Project Additional Notes" -> 24
      [] name = "Company Name" -> 12
      [] name = "Property Name" -> 13
      [] name = "Client" -> 6
      [] name = "Client Name" -> 11
      [] name = "Owner" -> 5
      [] name = "Status" -> 6
      [] name = "Notes" -> 5
      [] name = "Budget" -> 6
      [] name = "Files" -> 5
      [] name = "Contact" -> 7
      [] name = "Tags" -> 4
      [] name = "Title" -> 5
      [] name = "Amount" -> 6
      [] OTHER -> 1

\* ------------------------------------------------------------------------
\* The record store behind the Airtable API
\* ------------------------------------------------------------------------
app1 == <<"a", "1">>
app2 == <<"a", "2">>
tbl1 == <<"t", "1">>
tbl2 == <<"t", "2">>
tbl3 == <<"t", "3">>
tbl4 == <<"t", "4">>
rec1 == <<"r", "1">>
rec2 == <<"r", "2">>
rec3 == <<"r", "3">>
rec4 == <<"r", "4">>
rec5 == <<"r", "5">>
rec6 == <<"r", "6">>
rec7 == <<"r", "7">>
rec8 == <<"r", "8">>
rec9 == <<"r", "9">>

Bases ==
    << [id |-> app1, name |-> "Work", permissionLevel |-> "create"],
       [id |-> app2, name |-> "Sales", permissionLevel |-> "read"] >>

Fld(i, n, t) == [id |-> i, name |-> n, type |-> t]

Tables(baseId) ==
    IF baseId = app1 THEN
      << [id |-> tbl1, name |-> "Jobs", description |-> "jobs", primaryFieldId |-> "fld1",
          fields |-> << Fld("fld1", "Project Name", "singleLineText"),
                        Fld("fld2", "Status", "singleSelect"),
                        Fld("fld3", "Notes", "multilineText"),
                        Fld("fld4", "Budget", "number") >>,
          views |-> << [id |-> "viw1", name |-> "Grid", type |-> "grid"] >>],
         [id |-> tbl2, name |-> "Clients", description |-> "", primaryFieldId |-> "fld5",
          fields |-> << Fld("fld5", "Contact", "email"),
                        Fld("fld6", "Owner", "singleLineText") >>,
          views |-> <<>>] >>
    ELSE IF baseId = app2 THEN
      << [id |-> tbl3, name |-> "Leads", description |-> "", primaryFieldId |-> "fld7",
          fields |-> << Fld("fld7", "Title", "url"),
                        Fld("fld9", "Status", "singleSelect"),
                        Fld("fld10", "Tags", "multipleSelects"),
                        Fld("fld11", "Owner", "singleLineText"),
                        Fld("fld12", "Client Name", "singleLineText"),
                        Fld("fld13", "Client", "singleLineText"),
                        Fld("fld14", "Property Name", "singleLineText"),
                        Fld("fld15", "Company Name", "singleLineText"),
                        Fld("fld16", "Project Complete Address", "multilineText"),
                        Fld("fld17", "Project Name", "singleLineText") >>,
          views |-> <<>>],
         [id |-> tbl4, name |-> "Numbers", description |-> "", primaryFieldId |-> "fld8",
          fields |-> << Fld("fld8", "Amount", "number") >>,
          views |-> <<>>] >>
    ELSE <<>>

FV(n, v) == [name |-> n, val |-> v]

Rec(i, fs) == [id |-> i, fields |-> fs]

TableRecords(baseId, tableId) ==
    IF baseId = app1 /\ tableId = tbl1 THEN
      << Rec(rec1, << FV("Notes", StrV("long", 500)), FV("Project Name", StrV("Alpha", 5)),
                      FV("Status", StrV("Open", 4)) >>),
         Rec(rec2, <<>>),
         Rec(rec3, << FV("Budget", NumV("1200", 4)),
                      FV("Files", ArrV(<< ObjV("att", 30), Null, StrV("x", 1) >>)) >>) >>
    ELSE IF baseId = app1 /\ tableId = tbl2 THEN
      << Rec(rec4, << FV("Owner", StrV("Al", 2)), FV("Contact", StrV("a@b.io", 6)) >>),
         Rec(rec5, << FV("Tags", ArrV(<<>>)), FV("Contact", Null) >>) >>
    ELSE IF baseId = app2 /\ tableId = tbl3 THEN
      << Rec(rec6, << FV("Tags", ArrV(<< Null >>)) >>),
         Rec(rec8, << FV("Status", StrV("Won", 3)), FV("Tags", ArrV(<< StrV("vip", 3) >>)),
                      FV("Owner", StrV("Bo", 2)), FV("Client Name", StrV("Cy", 2)),
                      FV("Client", StrV("Di", 2)), FV("Property Name", StrV("Elm", 3)),
                      FV("Company Name", StrV("Fox", 3)),
                      FV("Project Complete Address", StrV("1 Main", 6)),
                      FV("Project Name", StrV("Gym", 3)), FV("Title", StrV("h.io", 4)) >>) >>
    ELSE IF baseId = app2 /\ tableId = tbl4 THEN
      << Rec(rec7, << FV("Amount", NumV("7", 1)) >>) >>
    ELSE <<>>

BaseIds == {Bases[i].id : i \in 1..Len(Bases)}
TableIdsOf(baseId) == {Tables(baseId)[i].id : i \in 1..Len(Tables(baseId))}
AllTableIds == UNION {TableIdsOf(b) : b \in BaseIds}
RecordIdsOf(baseId, tableId) ==
    {TableRecords(baseId, tableId)[i].id : i \in 1..Len(TableRecords(baseId, tableId))}

\* the records of a table that the formula OR(FIND(term, field), ...) keeps
SearchTerms == {"x", "y"}
Matches(r, term) == term = "x" \/ r.id \in {rec1, rec3, rec4}

\* ------------------------------------------------------------------------
\* Pure helpers of the search synthesizer (dist/mcpServer.js)
\* ------------------------------------------------------------------------
\* r.fields[name]
FieldVal(fields, name) ==
    IF \E i \in 1..Len(fields) : fields[i].name = name
    THEN fields[CHOOSE i \in 1..Len(fields) : fields[i].name = name].val
    ELSE Undefined

\* length of the string stringify(val) returns
RECURSIVE stringify(_)
stringify(val) ==
    CASE val.kind \in {"null", "undefined"} -> 0
      [] val.kind \in {"string", "number", "boolean"} -> val.len
      [] val.kind = "array" ->
           LET lens == [i \in 1..Len(val.elems) |-> stringify(val.elems[i])]
               kept == SelectSeq(lens, LAMBDA n : n > 0)
           IN  IF kept = <<>> THEN 0 ELSE SumSeq(kept) + 2 * (Len(kept) - 1)
      [] val.kind = "object" -> val.len
      [] OTHER -> 0

\* length of JSON.stringify(val) for a field value
RECURSIVE JsonLen(_)
JsonLen(val) ==
    CASE val.kind \in {"null", "undefined"} -> 4
      [] val.kind = "string" -> val.len + 2
      [] val.kind \in {"number", "boolean", "object"} -> val.len
      [] val.kind = "array" ->
           LET lens == [i \in 1..Len(val.elems) |-> JsonLen(val.elems[i])]
           IN  2 + SumSeq(lens) + (IF Len(lens) > 0 THEN Len(lens) - 1 ELSE 0)
      [] OTHER -> 0

\* length of JSON.stringify(r.fields)
JsonLenFields(fields) ==
    LET lens == [i \in 1..Len(fields) |-> NameLen(fields[i].name) + 3 + JsonLen(fields[i].val)]
    IN  2 + SumSeq(lens) + (IF Len(lens) > 0 THEN Len(lens) - 1 ELSE 0)

\* mutant: the string is not truncated
SliceNothing(len, n) == len

\* str.slice(0, n) on a length
Slice(len, n) == Min(len, n)

HintFieldNames ==
    << "Project Name", "Project Complete Address", "Project Additional Notes",
       "Company Name", "Property Name", "Client", "Client Name", "Owner", "Status" >>

\* table.fields.find((f) => f.id === table.primaryFieldId)?.name ; "" is undefined
PrimaryFieldName(table) ==
    LET i == FirstIndex(table.fields, table.primaryFieldId)
    IN  IF i = 0 THEN "" ELSE table.fields[i].name

\* mutant: the primary field is put after the hint names
prioritizedFieldNamesHintsFirst(primaryFieldName) ==
    SelectSeq(HintFieldNames \o <<primaryFieldName>>, LAMBDA n : n # "")

\* [primaryFieldName, ...hints].filter(Boolean)
prioritizedFieldNames(primaryFieldName) ==
    SelectSeq(<<primaryFieldName>> \o HintFieldNames, LAMBDA n : n # "")

\* first loop: prioritized names the record has, without repetition
RECURSIVE PickPrioritized(_, _, _)
PickPrioritized(names, fields, ordered) ==
    IF names = <<>> THEN ordered
    ELSE LET name == Head(names)
         IN  IF name \notin Range(ordered) /\ FieldVal(fields, name).kind # "undefined"
             THEN PickPrioritized(Tail(names), fields, Append(ordered, name))
             ELSE PickPrioritized(Tail(names), fields, ordered)

\* second loop: the other fields that stringify to a non-empty string
RECURSIVE FillOthers(_, _, _)
FillOthers(entries, fields, ordered) ==
    IF entries = <<>> THEN ordered
    ELSE LET e == Head(entries)
         IN  IF e.name \in Range(ordered) THEN FillOthers(Tail(entries), fields, ordered)
             ELSE LET next == IF stringify(e.val) > 0 THEN Append(ordered, e.name) ELSE ordered
                  IN  IF Len(next) >= MaxExtraFields THEN next
                      ELSE FillOthers(Tail(entries), fields, next)

orderedFieldNames(table, r) ==
    FillOthers(r.fields, r.fields,
               PickPrioritized(prioritizedFieldNames(PrimaryFieldName(table)), r.fields, <<>>))

\* (parts.join(' | ') || JSON.stringify(r.fields)).slice(0, 400)
snippet(table, r) ==
    LET names == orderedFieldNames(table, r)
        parts == [i \in 1..Len(names) |->
                    NameLen(names[i]) + 2 + stringify(FieldVal(r.fields, names[i]))]
        joined == IF Len(parts) = 0 THEN 0 ELSE SumSeq(parts) + 3 * (Len(parts) - 1)
    IN  IF joined > 0
        THEN [len |-> Slice(joined, SnippetMax), names |-> names, json |-> FALSE]
        ELSE [len |-> Slice(JsonLenFields(r.fields), SnippetMax), names |-> <<>>, json |-> TRUE]

\* one SearchResultItem
SearchItem(base, table, r) ==
    LET pname == PrimaryFieldName(table)
        pval == IF pname # "" THEN FieldVal(r.fields, pname) ELSE Undefined
        primaryValue == IF pname # "" THEN stringify(pval) ELSE 0
    IN  [id |-> JoinId(base.id, table.id, r.id),
         title |-> [base |-> base.name, table |-> table.name,
                    suffix |-> IF primaryValue > 0 THEN [v |-> pval, id |-> <<>>]
                               ELSE [v |-> Undefined, id |-> r.id]],
         text |-> snippet(table, r),
         url |-> <<base.id, table.id, r.id>>]

\* ------------------------------------------------------------------------
\* JavaScript numbers read from the environment or from arguments
\* ------------------------------------------------------------------------
NaN == [def |-> TRUE, nan |-> TRUE, n |-> 0]
Num(k) == [def |-> TRUE, nan |-> FALSE, n |-> k]
NoNum == [def |-> FALSE, nan |-> FALSE, n |-> 0]

\* raw value of a numeric environment variable
EnvUnset == [kind |-> "unset", n |-> 0]
EnvInt(k) == [kind |-> "int", n |-> k]
EnvText == [kind |-> "text", n |-> 0]

\* Number.parseInt(process.env.X ?? String(dflt), 10)
ParseIntEnv(raw, dflt) ==
    CASE raw.kind = "unset" -> Num(dflt)
      [] raw.kind = "int" -> Num(raw.n)
      [] OTHER -> NaN

\* if (x) for a JS number or undefined
TruthyNum(x) == x.def /\ ~x.nan /\ x.n # 0

\* mutant: the cap is compared with > instead of >=
GreaterOnly(a, b) == ~b.nan /\ a > b.n

\* a >= b for a length a and a JS number b
GreaterEq(a, b) == ~b.nan /\ a >= b.n

\* (process.env.MCP_SEARCH_BASE_IDS ?? '').split(',').map(trim).filter(Boolean)
allowBaseIds(raw) ==
    LET pieces == Split(raw, ",")
        trimmed == [i \in 1..Len(pieces) |-> Trim(pieces[i])]
    IN  SelectSeq(trimmed, LAMBDA e : e # <<>>)

\* ------------------------------------------------------------------------
\* Airtable service client (dist/airtableService.js) and the backend it calls
\* ------------------------------------------------------------------------
searchableFieldTypes ==
    {"singleLineText", "multilineText", "richText", "email", "url", "phoneNumber",
     "lookup", "rollup"}

FindTable(tbls, tableId) == FirstIndex(tbls, tableId)

\* mutant: the fields are not filtered by type
searchableFieldsAnyType(table) ==
    [i \in 1..Len(table.fields) |-> table.fields[i].name]

\* names of the text-like fields of a table
searchableFields(table) ==
    LET fs == SelectSeq(table.fields, LAMBDA f : f.type \in searchableFieldTypes)
    IN  [i \in 1..Len(fs) |-> fs[i].name]

TableNotFound(tableId, baseId) ==
    <<"Table ">> \o tableId \o <<" not found in base ">> \o baseId

\* validateAndGetSearchFields once the schema has arrived:
\* [ok |-> FALSE, msg] when it throws, [ok |-> TRUE, fields] otherwise
validateAndGetSearchFields(tbls, baseId, tableId, requested) ==
    LET i == FindTable(tbls, tableId)
    IN  IF i = 0
        THEN [ok |-> FALSE, fields |-> <<>>, msg |-> TableNotFound(tableId, baseId)]
        ELSE LET sf == searchableFields(tbls[i])
             IN  IF Len(sf) = 0
                 THEN [ok |-> FALSE, fields |-> <<>>,
                       msg |-> <<"No text fields available to search">>]
                 ELSE IF Len(requested) > 0
                 THEN LET invalid == SelectSeq(requested, LAMBDA f : f \notin Range(sf))
                      IN  IF Len(invalid) > 0
                          THEN [ok |-> FALSE, fields |-> <<>>,
                                msg |-> <<"Invalid fields requested: ">> \o invalid]
                          ELSE [ok |-> TRUE, fields |-> requested, msg |-> <<>>]
                 ELSE [ok |-> TRUE, fields |-> sf, msg |-> <<>>]

\* mutant: the offset token of the previous response is not sent
ListQueryNoOffset(options, off) ==
    [maxRecords |-> IF TruthyNum(options.maxRecords) THEN options.maxRecords ELSE NoNum,
     term |-> options.term,
     offset |-> 0]

\* query parameters listRecords sends: maxRecords only when it is truthy
ListQuery(options, off) ==
    [maxRecords |-> IF TruthyNum(options.maxRecords) THEN options.maxRecords ELSE NoNum,
     term |-> options.term,
     offset |-> off]

\* the backend's answer to one page request: records and the next offset token
\* (0 stands for a response without an offset)
BackendPage(baseId, tableId, query) ==
    LET all == TableRecords(baseId, tableId)
        hits == IF query.term = "" THEN all
                ELSE SelectSeq(all, LAMBDA r : Matches(r, query.term))
        capped == IF query.maxRecords.def THEN Take(hits, query.maxRecords.n) ELSE hits
        last == Min(query.offset + PageSize, Len(capped))
    IN  [records |-> SubSeq(capped, query.offset + 1, last),
         offset |-> IF last < Len(capped) THEN last ELSE 0]

BaseExists(baseId) == baseId \in BaseIds
TableExists(baseId, tableId) == tableId \in TableIdsOf(baseId)
RecordExists(baseId, tableId, recordId) == recordId \in RecordIdsOf(baseId, tableId)
GetRecord(baseId, tableId, recordId) ==
    LET rs == TableRecords(baseId, tableId)
    IN  rs[CHOOSE i \in 1..Len(rs) : rs[i].id = recordId]

ApiError == <<"Airtable API Error">>

\* ------------------------------------------------------------------------
\* Requests: tool name and arguments (request.params)
\* ------------------------------------------------------------------------
AbsentS == [t |-> "absent", v |-> ""]
AbsentC == [t |-> "absent", v |-> <<>>]
StrS(x) == [t |-> "string", v |-> x]
NumS == [t |-> "number", v |-> ""]
NumC == [t |-> "number", v |-> <<>>]

\* arguments: undefined when obj is FALSE, otherwise an object with these keys
NoArgs ==
    [obj |-> FALSE, query |-> AbsentS, id |-> AbsentC, baseId |-> AbsentC,
     tableId |-> AbsentC, recordId |-> AbsentC, searchTerm |-> AbsentS,
     detailLevel |-> AbsentS, fieldIds |-> AbsentC, maxRecords |-> NoNum,
     payload |-> AbsentS, uri |-> AbsentC]

EmptyObj == [NoArgs EXCEPT !.obj = TRUE]

IsString(a) == a.t = "string"

SearchArgs ==
    {NoArgs, EmptyObj} \cup
    {[EmptyObj EXCEPT !.query = q] : q \in {NumS} \cup {StrS(t) : t \in SearchTerms}}

FixedFetchIds ==
    { JoinId(app1, tbl1, rec1),
      JoinId(app1, tbl1, rec9),
      JoinId(<<"a", "9">>, tbl1, rec1),
      JoinId(app1, tbl2, <<>>),
      <<"n", "o", "t">>,
      app1 \o <<":">> \o tbl1,
      JoinId(app1, tbl1, rec1) \o <<":", "x">> }

FetchArgs(ids) ==
    {NoArgs, EmptyObj, [EmptyObj EXCEPT !.id = NumC]} \cup
    {[EmptyObj EXCEPT !.id = StrS(i)] : i \in ids}

\* ------------------------------------------------------------------------
\* Tool results
\* ------------------------------------------------------------------------
Msg(m) == [kind |-> "msg", msg |-> m, items |-> <<>>, obj |-> [none |-> TRUE]]
Items(xs) == [kind |-> "items", msg |-> <<>>, items |-> xs, obj |-> [none |-> TRUE]]
ObjData(o) == [kind |-> "obj", msg |-> <<>>, items |-> <<>>, obj |-> o]

\* JSON.stringify(data): the JSON string encoding data
JSONstringify(data) == [json |-> data]

\* dist/mcpServer.js and src/mcpServer.ts
formatToolResponse(data, isError) ==
    [content |-> << [type |-> "text", text |-> JSONstringify(data)] >>,
     isError |-> isError]

\* the full tool set
formatToolResponseFull(data, isError) ==
    [content |-> << [type |-> "text", mimeType |-> "application/json",
                     text |-> JSONstringify(data)] >>,
     isError |-> isError]

ErrorText(name, msg) == <<"Error in tool ", name, ": ">> \o msg

ZodError == <<"ZodError">>
InvalidIdFormat == <<"Invalid id format. Expected baseId:tableId:recordId">>
\* mutant: the message does not name the tool
UnknownToolUnnamed(name) == <<"Unknown tool">>

UnknownTool(name) == <<"Unknown tool: ", name>>

NoResp == [status |-> "none", envelope |-> formatToolResponse(Msg(<<>>), FALSE)]
Returned(e) == [status |-> "returned", envelope |-> e]

NoRecord == [has |-> FALSE, r |-> Rec(<<>>, <<>>)]
NoReq == [name |-> "", args |-> NoArgs, origin |-> "none"]

Call(op, b, t, r) == [op |-> op, base |-> b, table |-> t, rec |-> r]

\* the outcome of the previous call, kept while the same fetch is repeated
NoLast == [has |-> FALSE, id |-> <<>>, envelope |-> NoResp.envelope, thrown |-> <<>>]

\* ------------------------------------------------------------------------
\* Resources: airtable://<baseId>/<tableId>/schema
\* ------------------------------------------------------------------------
Scheme == <<"a", "i", "r", "t", "a", "b", "l", "e", ":", "/", "/">>
SchemaSuffix == <<"s", "c", "h", "e", "m", "a">>

\* mutant: the two ids are emitted without a separator between them
ResourceUriGlued(baseId, tableId) == Scheme \o baseId \o tableId \o <<"/">> \o SchemaSuffix

\* `airtable://${base.id}/${table.id}/schema`
ResourceUri(baseId, tableId) ==
    Scheme \o baseId \o <<"/">> \o tableId \o <<"/">> \o SchemaSuffix

\* /^airtable:\/\/([^/]+)\/([^/]+)\/schema$/.exec(uri), with the check of
\* match[1] and match[2]
NoMatch == [ok |-> FALSE, baseId |-> <<>>, tableId |-> <<>>]
MatchResourceUri(uri) ==
    IF Len(uri) < Len(Scheme) \/ SubSeq(uri, 1, Len(Scheme)) # Scheme
    THEN NoMatch
    ELSE LET parts == Split(SubSeq(uri, Len(Scheme) + 1, Len(uri)), "/")
         IN  IF /\ Len(parts) = 3
                /\ parts[1] # <<>>
                /\ parts[2] # <<>>
                /\ parts[3] = SchemaSuffix
             THEN [ok |-> TRUE, baseId |-> parts[1], tableId |-> parts[2]]
             ELSE NoMatch

\* schema.tables.map((table) => ({uri, mimeType, name}))
ResourcesOfBase(base) ==
    LET tbls == Tables(base.id)
    IN  [i \in 1..Len(tbls) |->
           [uri |-> ResourceUri(base.id, tbls[i].id),
            mimeType |-> "application/json",
            name |-> <<base.name, ": ", tbls[i].name, " schema">>]]

\* resources.flat(), in the order of bases
RECURSIVE ResourcesOf(_)
ResourcesOf(bs) ==
    IF bs = <<>> THEN <<>> ELSE ResourcesOfBase(Head(bs)) \o ResourcesOf(Tail(bs))

\* the object a resource read encodes as its text
TableDescriptor(baseId, table) ==
    [baseId |-> baseId, tableId |-> table.id, name |-> table.name,
     description |-> table.description, primaryFieldId |-> table.primaryFieldId,
     fields |-> table.fields, views |-> table.views]

InvalidResourceUri == <<"Invalid resource URI">>

\* results of tools/list and of the resource requests
NoOut == [kind |-> "none"]
Raised(msg) == [kind |-> "raised", msg |-> msg]
ListedUris(o) ==
    IF o.kind = "resources"
    THEN {o.resources[i].uri : i \in 1..Len(o.resources)}
    ELSE {}

FixedUris ==
    { ResourceUri(app1, tbl2),
      ResourceUri(app1, <<"t", "9">>),
      ResourceUri(<<"a", "9">>, tbl1),
      Scheme \o app1 \o <<"/">> \o SchemaSuffix,
      ResourceUri(app1, tbl1) \o <<"x">>,
      Tail(ResourceUri(app1, tbl1)),
      <<>> }

\* the getBaseSchema request of handleListResources for the i-th base
SchemaOps == <<"getBaseSchema#1", "getBaseSchema#2">>

\* ------------------------------------------------------------------------
\* AIRTABLE_API_KEY and the constructor of AirtableService
\* ------------------------------------------------------------------------
KeyUnset == [set |-> FALSE, v |-> <<>>]
Key(v) == [set |-> TRUE, v |-> v]
Keys == {KeyUnset, Key(<<>>), Key(<<" ">>), Key(<<"k">>), Key(<<" ", "k", " ">>)}

\* a string or undefined is truthy
TruthyKey(k) == k.set /\ k.v # <<>>

\* mutant: the key is not trimmed before the check
constructorUntrimmed(apiKey, envKey) ==
    LET given == IF apiKey.set THEN apiKey.v
                 ELSE IF TruthyKey(envKey) THEN envKey.v ELSE <<>>
    IN  [ok |-> given # <<>>, apiKey |-> given]

\* new AirtableService(apiKey), apiKey defaulting to
\* process.env.AIRTABLE_API_KEY || '': ok is FALSE when it throws
constructor(apiKey, envKey) ==
    LET given == IF apiKey.set THEN apiKey.v
                 ELSE IF TruthyKey(envKey) THEN envKey.v ELSE <<>>
    IN  [ok |-> Trim(given) # <<>>, apiKey |-> Trim(given)]

\* ------------------------------------------------------------------------
\* api/sse.ts: sessions
\* ------------------------------------------------------------------------
Sessions == 1..MaxSessions

\* sessionId of a POST: 0 when the query has none, -1 an id no GET created
NoSessionId == 0
StrangerId == 0 - 1
PostIds == Sessions \cup {NoSessionId, StrangerId}

\* the GET request of a session: position of the handler, whether the response
\* has closed, whether the cleanup listener is attached, the status sent
NoSession == [pc |-> "none", closed |-> FALSE, listener |-> FALSE, status |-> 0]
NoPost == [sid |-> NoSessionId, status |-> 0, registered |-> FALSE, closed |-> FALSE]

\* ------------------------------------------------------------------------
\* State
\* ------------------------------------------------------------------------
VARIABLES
    impl,          \* deployed dispatcher: "dist", "src" or "full"
    env,           \* process.env
    pc,            \* position of the handler of the current call
    req,           \* request.params of the current call
    resp,          \* what handleCallTool handed to the transport
    thrown,        \* message of the exception that reached the outer catch
    calls,         \* backend calls issued by the current call, in order
    pending,       \* backend calls in flight
    results,       \* search: results
    failedTables,  \* search: tables whose searchRecords threw
    bases,         \* search: bases listed
    bi,            \* search: index of the base being visited
    tables,        \* baseSchema.tables
    ti,            \* search: index of the table being visited
    allRecords,    \* listRecords: allRecords
    offset,        \* listRecords: offset
    records,       \* search: records of the current table
    ri,            \* search: index of the record being visited
    record,        \* fetch: record
    writes,        \* mutating backend operations performed
    known,         \* ids of the last search response, until the next call starts
    last,          \* the previous call's outcome, while the same fetch is repeated
    listed,        \* URIs of the last resource listing, until the next request starts
    out,           \* result of the current tools/list or resources request
    apiKeyEnv,     \* process.env.AIRTABLE_API_KEY
    transports,    \* api/sse.ts: the session ids registered in `transports`
    sess,          \* api/sse.ts: the GET request of each session
    post           \* api/sse.ts: answer to the last POST

callVars == <<pc, resp, thrown, calls, pending>>
searchVars == <<results, failedTables, bases, bi, tables, ti, records, ri>>
listVars == <<allRecords, offset>>
histVars == <<last, listed, out>>
sseVars == <<apiKeyEnv, transports, sess, post>>
vars == <<impl, env, req, callVars, searchVars, listVars, record, writes, known, histVars,
          sseVars>>

\* ------------------------------------------------------------------------
\* Configuration read by the search handler
\* ------------------------------------------------------------------------
maxTotalResults == ParseIntEnv(env.MCP_SEARCH_MAX_TOTAL, DefaultMaxTotal)
perTableLimit == ParseIntEnv(env.MCP_SEARCH_PER_TABLE_LIMIT, DefaultPerTableLimit)
AllowList == allowBaseIds(env.MCP_SEARCH_BASE_IDS)

AllowListEnvs ==
    { <<>>,
      <<"a", "2">>,
      <<" ", "a", "2", " ", ",", " ">>,
      <<"a", "2", ",", "a", "1">>,
      <<"a", "9">> }

LimitEnvs == {EnvUnset, EnvText} \cup {EnvInt(k) : k \in 0..MaxCfg}

Envs ==
    [MCP_SEARCH_BASE_IDS : AllowListEnvs, MCP_SEARCH_MAX_TOTAL : LimitEnvs,
     MCP_SEARCH_PER_TABLE_LIMIT : LimitEnvs]

\* ------------------------------------------------------------------------
\* The full tool set
\* ------------------------------------------------------------------------
MinimalTools == {"search", "fetch"}

MutatingTools ==
    {"create_record", "update_records", "delete_records", "create_table", "update_table",
     "create_field", "update_field"}

FullTools ==
    {"list_bases", "list_tables", "describe_table", "list_records", "search_records",
     "get_record"} \cup MutatingTools

\* service operation a mutating tool calls
ServiceOp(name) ==
    CASE name = "create_record" -> "createRecord"
      [] name = "update_records" -> "updateRecords"
      [] name = "delete_records" -> "deleteRecords"
      [] name = "create_table" -> "createTable"
      [] name = "update_table" -> "updateTable"
      [] name = "create_field" -> "createField"
      [] OTHER -> "updateField"

MutatingOps == {ServiceOp(n) : n \in MutatingTools}

DetailLevels == {"tableIdentifiersOnly", "identifiersOnly", "full"}

\* keys the argument schema of a tool requires
RequiredKeys(name) ==
    CASE name = "list_tables" -> {"baseId"}
      [] name = "create_table" -> {"baseId", "payload"}
      [] name \in {"list_records", "describe_table"} -> {"baseId", "tableId"}
      [] name = "search_records" -> {"baseId", "tableId", "searchTerm"}
      [] name = "get_record" -> {"baseId", "tableId", "recordId"}
      [] OTHER -> {"baseId", "tableId", "payload"}

\* XxxArgsSchema.parse(request.params.arguments) succeeds
ParseFullArgs(name, args) ==
    /\ args.obj
    /\ \A k \in RequiredKeys(name) : IsString(args[k])
    /\ args.detailLevel.t # "absent" =>
         IsString(args.detailLevel) /\ args.detailLevel.v \in DetailLevels
    /\ args.fieldIds.t \in {"absent", "array"}
    /\ args.maxRecords.def => ~args.maxRecords.nan

\* mutant: the first tier also carries the description
TableViewWithDescription(table, detailLevel) ==
    CASE detailLevel = "tableIdentifiersOnly" ->
           [id |-> table.id, name |-> table.name, description |-> table.description]
      [] detailLevel = "identifiersOnly" ->
           [id |-> table.id, name |-> table.name,
            fields |-> [i \in 1..Len(table.fields) |->
                          [id |-> table.fields[i].id, name |-> table.fields[i].name]],
            views |-> [i \in 1..Len(table.views) |->
                          [id |-> table.views[i].id, name |-> table.views[i].name]]]
      [] OTHER ->
           [id |-> table.id, name |-> table.name, description |-> table.description,
            fields |-> table.fields, views |-> table.views]

\* a table as list_tables and describe_table report it
TableView(table, detailLevel) ==
    CASE detailLevel = "tableIdentifiersOnly" ->
           [id |-> table.id, name |-> table.name]
      [] detailLevel = "identifiersOnly" ->
           [id |-> table.id, name |-> table.name,
            fields |-> [i \in 1..Len(table.fields) |->
                          [id |-> table.fields[i].id, name |-> table.fields[i].name]],
            views |-> [i \in 1..Len(table.views) |->
                          [id |-> table.views[i].id, name |-> table.views[i].name]]]
      [] OTHER ->
           [id |-> table.id, name |-> table.name, description |-> table.description,
            fields |-> table.fields, views |-> table.views]

WithBT(b, t) == [EmptyObj EXCEPT !.baseId = StrS(b), !.tableId = StrS(t)]

tbl9 == <<"t", "9">>

FullArgs(name) ==
    {NoArgs, EmptyObj, [WithBT(app1, tbl1) EXCEPT !.baseId = NumC]} \cup
    CASE name = "list_bases" -> {}
      [] name = "list_tables" ->
           {[EmptyObj EXCEPT !.baseId = StrS(app1), !.detailLevel = d] :
              d \in {AbsentS, NumS, StrS("bogus")} \cup {StrS(l) : l \in DetailLevels}}
      [] name = "describe_table" ->
           {[WithBT(app1, t) EXCEPT !.detailLevel = d] :
              t \in {tbl2, tbl9}, d \in {AbsentS} \cup {StrS(l) : l \in DetailLevels}}
      [] name = "list_records" ->
           {[WithBT(app1, t) EXCEPT !.maxRecords = m] :
              t \in {tbl1, tbl9}, m \in {NoNum, Num(0), Num(1)}}
      [] name = "search_records" ->
           {[WithBT(b, t) EXCEPT !.searchTerm = StrS("x"), !.fieldIds = f, !.maxRecords = m] :
              b \in {app1}, t \in {tbl1, tbl9},
              f \in {AbsentC, [t |-> "array", v |-> <<"Notes">>],
                     [t |-> "array", v |-> <<"Notes", "Budget">>]},
              m \in {NoNum, Num(1)}} \cup
           {[WithBT(app2, tbl4) EXCEPT !.searchTerm = StrS("x")]}
      [] name = "get_record" ->
           {[WithBT(app1, tbl1) EXCEPT !.recordId = StrS(r)] : r \in {rec1, rec9}}
      [] OTHER ->
           {[WithBT(app1, tbl1) EXCEPT !.payload = StrS("p")], WithBT(app1, tbl1)}

\* ------------------------------------------------------------------------
\* Building blocks of the handler steps
\* ------------------------------------------------------------------------
\* return formatToolResponse(data, isError)
Reply(data, isError) ==
    /\ pc' = "done"
    /\ thrown' = <<>>
    /\ resp' = Returned(IF impl = "full" THEN formatToolResponseFull(data, isError)
                          ELSE formatToolResponse(data, isError))

\* mutant: the catch block lets the exception out
OuterCatchRethrows(name, msg) ==
    /\ pc' = "done"
    /\ resp' = [status |-> "escaped", envelope |-> NoResp.envelope]

\* mutant: the catch block returns the items collected before the exception
OuterCatchReturnsCollected(name, msg) ==
    /\ pc' = "done"
    /\ resp' = Returned(formatToolResponse(Items(results), FALSE))

\* catch (error) { return formatToolResponse(`Error in tool ...`, true) }
OuterCatch(name, msg) ==
    /\ pc' = "done"
    /\ resp' = Returned(IF impl = "full"
                          THEN formatToolResponseFull(Msg(ErrorText(name, msg)), TRUE)
                          ELSE formatToolResponse(Msg(ErrorText(name, msg)), TRUE))

\* an exception with message msg is thrown inside the try block of handleCallTool
Throw(name, msg) ==
    /\ thrown' = msg
    /\ OuterCatch(name, msg)

\* the handler moves on to position at
Goto(at) ==
    /\ pc' = at
    /\ thrown' = <<>>
    /\ resp' = NoResp

\* base and table the service call in progress is about
CurBaseId == IF req.name = "search" THEN bases[bi].id ELSE req.args.baseId.v
CurTableId == IF req.name = "search" THEN tables[ti].id ELSE req.args.tableId.v

\* options handed to listRecords
ListOptions ==
    CASE req.name = "search" /\ impl = "dist" ->
           [maxRecords |-> perTableLimit, term |-> req.args.query.v]
      [] req.name = "search" ->
           [maxRecords |-> Num(DraftPerTableLimit), term |-> req.args.query.v]
      [] req.name = "search_records" ->
           [maxRecords |-> req.args.maxRecords, term |-> req.args.searchTerm.v]
      [] OTHER ->
           [maxRecords |-> req.args.maxRecords, term |-> ""]

\* mutant: the type of query is not checked
ParseSearchArgsUntyped(args) == args.obj

\* z.object({ query: z.string() }).parse / z.object({ id: z.string() }).parse
ParseSearchArgs(args) == args.obj /\ IsString(args.query)
ParseFetchArgs(args) == args.obj /\ IsString(args.id)

\* mutant: only ids with fewer than three parts are rejected
AtLeastThreeParts(parts) == Len(parts) >= 3

\* parts.length !== 3 is the invalid id format
ValidIdParts(parts) == Len(parts) = 3

\* title and payload of a fetch in dist/mcpServer.js
TruthyVal(val) ==
    CASE val.kind \in {"null", "undefined"} -> FALSE
      [] val.kind = "string" -> val.len > 0
      [] val.kind = "number" -> val.txt # "0"
      [] val.kind = "boolean" -> val.txt = "true"
      [] OTHER -> TRUE

FetchPayload(parts, rcd, tbls) ==
    LET i == FindTable(tbls, parts[2])
        pname == IF i = 0 THEN "" ELSE PrimaryFieldName(tbls[i])
        pval == IF pname = "" THEN Undefined ELSE FieldVal(rcd.fields, pname)
    IN  [id |-> rcd.id,
         title |-> IF pname # "" /\ TruthyVal(pval)
                   THEN [primary |-> TRUE, v |-> pval, table |-> "", recordId |-> <<>>]
                   ELSE [primary |-> FALSE, v |-> Undefined,
                         table |-> IF i = 0 THEN "" ELSE tbls[i].name,
                         recordId |-> rcd.id],
         text |-> [len |-> JsonLenFields(rcd.fields), fields |-> rcd.fields],
         url |-> <<parts[1], parts[2], rcd.id>>,
         metadata |-> [baseId |-> parts[1], tableId |-> parts[2]]]

\* payload of a fetch in src/mcpServer.ts
DraftFetchPayload(parts, rcd) ==
    [id |-> rcd.id,
     title |-> [primary |-> FALSE, v |-> Undefined, table |-> "", recordId |-> rcd.id],
     text |-> [len |-> JsonLenFields(rcd.fields), fields |-> rcd.fields],
     url |-> <<>>,
     metadata |-> [baseId |-> parts[1], tableId |-> parts[2]]]

\* one result of the search in src/mcpServer.ts
DraftSearchItem(baseId, table, r) ==
    [id |-> JoinId(baseId, table.id, r.id),
     title |-> [base |-> "", table |-> table.name, suffix |-> [v |-> Undefined, id |-> r.id]],
     text |-> [len |-> Slice(JsonLenFields(r.fields), DraftSnippetMax), names |-> <<>>,
               json |-> TRUE],
     url |-> <<>>]

\* ------------------------------------------------------------------------
\* Initial state
\* ------------------------------------------------------------------------
Impls == {"dist", "src", "full"}

\* no request is being handled
HandlerIdle ==
    /\ pc = "idle"
    /\ req = NoReq
    /\ resp = NoResp
    /\ thrown = <<>>
    /\ calls = <<>>
    /\ pending = {}
    /\ results = <<>>
    /\ failedTables = {}
    /\ bases = <<>>
    /\ bi = 0
    /\ tables = <<>>
    /\ ti = 0
    /\ allRecords = <<>>
    /\ offset = 0
    /\ records = <<>>
    /\ ri = 0
    /\ record = NoRecord
    /\ writes = 0
    /\ known = {}
    /\ last = NoLast
    /\ listed = {}
    /\ out = NoOut

\* no GET has arrived
SseIdle ==
    /\ transports = {}
    /\ sess = [s \in Sessions |-> NoSession]
    /\ post = NoPost

Init ==
    /\ impl \in Impls
    /\ env \in Envs
    /\ impl # "dist" =>
         /\ env.MCP_SEARCH_MAX_TOTAL = EnvUnset
         /\ env.MCP_SEARCH_PER_TABLE_LIMIT = EnvUnset
    /\ impl = "full" => env.MCP_SEARCH_BASE_IDS = <<>>
    /\ HandlerIdle
    /\ apiKeyEnv = Key(<<"k">>)
    /\ SseIdle

\* ------------------------------------------------------------------------
\* handleCallTool: entry, up to the first await or the return
\* ------------------------------------------------------------------------
NoCall == calls' = <<>> /\ pending' = {}

\* service operations that are not themselves one backend request
CompositeOps == {"searchRecords", "listRecords"}

\* log the calls cs; those that are backend requests are now in flight
Issue(prev, rest, cs) ==
    /\ calls' = prev \o cs
    /\ pending' = rest \cup ({cs[i].op : i \in 1..Len(cs)} \ CompositeOps)

\* mutant: the first page is requested without awaiting the field validation
SearchRecordsCallsEager(b, t) ==
    << Call("searchRecords", b, t, <<>>), Call("schemaForSearch", b, t, <<>>),
       Call("listRecords", b, t, <<>>), Call("page", b, t, <<>>) >>

\* searchRecords(baseId, tableId, ...) starts with the schema request of
\* validateAndGetSearchFields
SearchRecordsCalls(b, t) ==
    << Call("searchRecords", b, t, <<>>), Call("schemaForSearch", b, t, <<>>) >>

\* mutant: fetch awaits getRecord before it asks for the schema
dispatchDistFetchRecordOnly(name, args) ==
    CASE name = "search" ->
           IF ~ParseSearchArgs(args) THEN Throw(name, ZodError) /\ NoCall
           ELSE Goto("listBases") /\ Issue(<<>>, {}, <<Call("listBases", <<>>, <<>>, <<>>)>>)
      [] name = "fetch" ->
           IF ~ParseFetchArgs(args) THEN Throw(name, ZodError) /\ NoCall
           ELSE LET parts == Split(args.id.v, ":")
                IN  IF ~ValidIdParts(parts) THEN Reply(Msg(InvalidIdFormat), TRUE) /\ NoCall
                    ELSE /\ Goto("fetchAll")
                         /\ Issue(<<>>, {}, << Call("getRecord", parts[1], parts[2], parts[3]) >>)
      [] OTHER -> Throw(name, UnknownTool(name)) /\ NoCall

\* dist/mcpServer.js
dispatchDist(name, args) ==
    CASE name = "search" ->
           IF ~ParseSearchArgs(args) THEN Throw(name, ZodError) /\ NoCall
           ELSE Goto("listBases") /\ Issue(<<>>, {}, <<Call("listBases", <<>>, <<>>, <<>>)>>)
      [] name = "fetch" ->
           IF ~ParseFetchArgs(args) THEN Throw(name, ZodError) /\ NoCall
           ELSE LET parts == Split(args.id.v, ":")
                IN  IF ~ValidIdParts(parts) THEN Reply(Msg(InvalidIdFormat), TRUE) /\ NoCall
                    ELSE /\ Goto("fetchAll")
                         /\ Issue(<<>>, {}, << Call("getRecord", parts[1], parts[2], parts[3]),
                                           Call("getBaseSchema", parts[1], <<>>, <<>>) >>)
      [] OTHER -> Throw(name, UnknownTool(name)) /\ NoCall

\* src/mcpServer.ts
dispatchSrc(name, args) ==
    CASE name = "search" ->
           IF ~ParseSearchArgs(args) THEN Throw(name, ZodError) /\ NoCall
           ELSE Goto("listBases") /\ Issue(<<>>, {}, <<Call("listBases", <<>>, <<>>, <<>>)>>)
      [] name = "fetch" ->
           IF ~ParseFetchArgs(args) THEN Throw(name, ZodError) /\ NoCall
           ELSE LET parts == Split(args.id.v, ":")
                IN  IF ~ValidIdParts(parts) THEN Reply(Msg(InvalidIdFormat), TRUE) /\ NoCall
                    ELSE /\ Goto("getRecord")
                         /\ Issue(<<>>, {}, << Call("getRecord", parts[1], parts[2], parts[3]) >>)
      [] OTHER -> Throw(name, UnknownTool(name)) /\ NoCall

\* the full tool set
dispatchFull(name, args) ==
    CASE name = "list_bases" ->
           Goto("listBases") /\ Issue(<<>>, {}, <<Call("listBases", <<>>, <<>>, <<>>)>>)
      [] name \in FullTools \ {"list_bases"} /\ ~ParseFullArgs(name, args) ->
           Throw(name, ZodError) /\ NoCall
      [] name = "list_records" ->
           /\ Goto("listPage")
           /\ Issue(<<>>, {}, << Call("listRecords", args.baseId.v, args.tableId.v, <<>>),
                                 Call("page", args.baseId.v, args.tableId.v, <<>>) >>)
      [] name = "search_records" ->
           /\ Goto("validate")
           /\ Issue(<<>>, {}, SearchRecordsCalls(args.baseId.v, args.tableId.v))
      [] name \in {"list_tables", "describe_table"} ->
           /\ Goto("getBaseSchema")
           /\ Issue(<<>>, {}, <<Call("getBaseSchema", args.baseId.v, <<>>, <<>>)>>)
      [] name = "get_record" ->
           /\ Goto("getRecord")
           /\ Issue(<<>>, {}, <<Call("getRecord", args.baseId.v, args.tableId.v,
                                     args.recordId.v)>>)
      [] name \in MutatingTools ->
           /\ Goto("mutate")
           /\ Issue(<<>>, {}, <<Call(ServiceOp(name), args.baseId.v, args.tableId.v, <<>>)>>)
      [] OTHER -> Throw(name, UnknownTool(name)) /\ NoCall

\* ids of the items of a response, when it is a successful search response
SearchIds(name, response) ==
    IF name = "search" /\ response.status = "returned" /\ ~response.envelope.isError
    THEN LET items == response.envelope.content[1].text.json.items
         IN  {items[i].id : i \in 1..Len(items)}
    ELSE {}

ToolNames == MinimalTools \cup FullTools \cup {"delete_everything"}

ArgsOf(name) ==
    CASE name = "search" -> SearchArgs
      [] name = "fetch" -> FetchArgs(FixedFetchIds \cup known)
      [] name \in FullTools -> FullArgs(name)
      [] OTHER -> {NoArgs, [EmptyObj EXCEPT !.query = StrS("x")]}

\* mutant: the draft dispatcher hands the names it does not know to the
\* dispatcher of the full tool set
handleCallToolAnyProfile(name, args) ==
    /\ pc = "idle"
    /\ impl = "full" /\ name \in MutatingTools => writes < MaxWrites
    /\ req' = [name |-> name, args |-> args,
               origin |-> IF name = "fetch" /\ IsString(args.id) /\ args.id.v \in known
                          THEN "search" ELSE "none"]
    /\ CASE impl = "dist" -> dispatchDist(name, args)
         [] impl = "src" /\ name \in MinimalTools -> dispatchSrc(name, args)
         [] OTHER -> dispatchFull(name, args)
    /\ known' = {}
    /\ last' = IF name = "fetch" /\ last.has /\ IsString(args.id) /\ args.id.v = last.id
               THEN last ELSE NoLast
    /\ listed' = {}
    /\ out' = NoOut
    /\ UNCHANGED <<impl, env, writes, searchVars, listVars, record, sseVars>>

handleCallTool(name, args) ==
    /\ pc = "idle"
    /\ impl = "full" /\ name \in MutatingTools => writes < MaxWrites
    /\ req' = [name |-> name, args |-> args,
               origin |-> IF name = "fetch" /\ IsString(args.id) /\ args.id.v \in known
                          THEN "search" ELSE "none"]
    /\ CASE impl = "dist" -> dispatchDist(name, args)
         [] impl = "src" -> dispatchSrc(name, args)
         [] OTHER -> dispatchFull(name, args)
    /\ known' = {}
    /\ last' = IF name = "fetch" /\ last.has /\ IsString(args.id) /\ args.id.v = last.id
               THEN last ELSE NoLast
    /\ listed' = {}
    /\ out' = NoOut
    /\ UNCHANGED <<impl, env, writes, searchVars, listVars, record, sseVars>>

\* ------------------------------------------------------------------------
\* Steps of the handlers after the first await
\* ------------------------------------------------------------------------
\* a backend call of the current handler returns
Done(op) == calls' = calls /\ pending' = pending \ {op}

IssueNext(op, cs) == Issue(calls, pending \ {op}, cs)

\* await this.airtableService.listBases() completes
listBasesReturn(outcome) ==
    /\ pc = "listBases"
    /\ "listBases" \in pending
    /\ UNCHANGED <<sseVars, histVars, impl, env, req, writes, known, listVars, record, results, failedTables,
                   tables, ti, records, ri>>
    /\ IF outcome = "fail"
       THEN Throw(req.name, ApiError) /\ Done("listBases") /\ UNCHANGED <<bases, bi>>
       ELSE LET bs == IF outcome = "empty" THEN <<>> ELSE Bases
            IN  /\ bases' = bs
                /\ CASE req.name = "search" /\ bs = <<>> ->
                          Reply(Items(<<>>), FALSE) /\ Done("listBases") /\ bi' = bi
                     [] req.name = "search" /\ impl = "dist" ->
                          Goto("baseLoop") /\ Done("listBases") /\ bi' = 1
                     [] req.name = "search" ->
                          /\ Goto("getBaseSchema")
                          /\ IssueNext("listBases", <<Call("getBaseSchema", bs[1].id, <<>>, <<>>)>>)
                          /\ bi' = 1
                     [] OTHER ->
                          /\ Reply(Items([i \in 1..Len(bs) |->
                                   [id |-> bs[i].id, name |-> bs[i].name,
                                    permissionLevel |-> bs[i].permissionLevel]]), FALSE)
                          /\ Done("listBases")
                          /\ bi' = bi

\* dist search: head of `for (const base of bases)` and the return after it
baseLoop ==
    /\ pc = "baseLoop"
    /\ UNCHANGED <<sseVars, histVars, impl, env, req, writes, known, listVars, record, results, failedTables,
                   bases, tables, ti, records, ri>>
    /\ IF bi > Len(bases)
       THEN Reply(Items(results), FALSE) /\ UNCHANGED <<calls, pending, bi>>
       ELSE IF Len(AllowList) > 0 /\ bases[bi].id \notin Range(AllowList)
       THEN Goto("baseLoop") /\ bi' = bi + 1 /\ UNCHANGED <<calls, pending>>
       ELSE /\ Goto("getBaseSchema")
            /\ Issue(calls, pending, <<Call("getBaseSchema", bases[bi].id, <<>>, <<>>)>>)
            /\ bi' = bi

\* await this.airtableService.getBaseSchema(...) of a handler completes
getBaseSchemaReturn(ok) ==
    /\ pc = "getBaseSchema"
    /\ "getBaseSchema" \in pending
    /\ ok => BaseExists(CurBaseId)
    /\ UNCHANGED <<sseVars, histVars, impl, env, req, writes, known, record, results, failedTables, bases, bi,
                   records, ri>>
    /\ IF ~ok
       THEN Throw(req.name, ApiError) /\ Done("getBaseSchema")
            /\ UNCHANGED <<tables, ti, listVars>>
       ELSE LET tbls == Tables(CurBaseId)
            IN  /\ tables' = tbls
                /\ CASE req.name = "search" /\ impl = "dist" ->
                          Goto("tableLoop") /\ Done("getBaseSchema") /\ ti' = 1
                          /\ UNCHANGED listVars
                     [] req.name = "search" /\ tbls = <<>> ->
                          Reply(Items(<<>>), FALSE) /\ Done("getBaseSchema") /\ ti' = ti
                          /\ UNCHANGED listVars
                     [] req.name = "list_tables" ->
                          /\ Reply(Items([i \in 1..Len(tbls) |->
                                   TableView(tbls[i], req.args.detailLevel.v)]), FALSE)
                          /\ Done("getBaseSchema")
                          /\ ti' = ti
                          /\ UNCHANGED listVars
                     [] req.name = "describe_table" ->
                          /\ LET i == FindTable(tbls, req.args.tableId.v)
                             IN  IF i = 0
                                 THEN Reply(Msg(TableNotFound(req.args.tableId.v,
                                                              req.args.baseId.v)), TRUE)
                                 ELSE Reply(ObjData(TableView(tbls[i], req.args.detailLevel.v)),
                                            FALSE)
                          /\ Done("getBaseSchema")
                          /\ ti' = ti
                          /\ UNCHANGED listVars
                     [] OTHER ->
                          \* src search: searchRecords on the first table
                          /\ Goto("validate")
                          /\ IssueNext("getBaseSchema", SearchRecordsCalls(CurBaseId, tbls[1].id))
                          /\ ti' = 1
                          /\ UNCHANGED listVars

\* dist search: head of `for (const table of baseSchema.tables)` and the
\* check after the loop
tableLoop ==
    /\ pc = "tableLoop"
    /\ UNCHANGED <<sseVars, histVars, impl, env, req, writes, known, listVars, record, results, failedTables,
                   bases, tables, ti, records, ri>>
    /\ IF ti > Len(tables) \/ GreaterEq(Len(results), maxTotalResults)
       THEN IF GreaterEq(Len(results), maxTotalResults)
            THEN Reply(Items(results), FALSE) /\ UNCHANGED <<calls, pending, bi>>
            ELSE Goto("baseLoop") /\ bi' = bi + 1 /\ UNCHANGED <<calls, pending>>
       ELSE /\ Goto("validate")
            /\ Issue(calls, pending, SearchRecordsCalls(bases[bi].id, tables[ti].id))
            /\ bi' = bi

\* mutant: no per-table try/catch, the exception reaches the outer catch
ThrowInSearchRecordsPropagates(op, msg) ==
    /\ Throw(req.name, msg)
    /\ Done(op)
    /\ UNCHANGED <<results, failedTables, ti, records, ri, listVars>>

\* a throw inside searchRecords: swallowed by the per-table catch of the dist
\* search, caught by the outer catch everywhere else
ThrowInSearchRecords(op, msg) ==
    IF req.name = "search" /\ impl = "dist"
    THEN /\ Goto("tableLoop")
         /\ Done(op)
         /\ failedTables' = failedTables \cup {tables[ti].id}
         /\ ti' = ti + 1
         /\ UNCHANGED <<results, records, ri, listVars>>
    ELSE /\ Throw(req.name, msg)
         /\ Done(op)
         /\ UNCHANGED <<results, failedTables, ti, records, ri, listVars>>

\* validateAndGetSearchFields: its getBaseSchema completes, then searchRecords
\* calls listRecords, which requests the first page
validateReturn(ok) ==
    /\ pc = "validate"
    /\ "schemaForSearch" \in pending
    /\ ok => BaseExists(CurBaseId)
    /\ UNCHANGED <<sseVars, histVars, impl, env, req, writes, known, record, bases, bi, tables>>
    /\ IF ~ok
       THEN ThrowInSearchRecords("schemaForSearch", ApiError)
       ELSE LET v == validateAndGetSearchFields(Tables(CurBaseId), CurBaseId, CurTableId,
                                                req.args.fieldIds.v)
            IN  IF ~v.ok
                THEN ThrowInSearchRecords("schemaForSearch", v.msg)
                ELSE /\ Goto("listPage")
                     /\ IssueNext("schemaForSearch",
                                  << Call("listRecords", CurBaseId, CurTableId, <<>>),
                                     Call("page", CurBaseId, CurTableId, <<>>) >>)
                     /\ allRecords' = <<>>
                     /\ offset' = 0
                     /\ UNCHANGED <<results, failedTables, ti, records, ri>>

\* listRecords: a page request completes; loop while the response has an offset
listPageReturn(ok) ==
    /\ pc = "listPage"
    /\ "page" \in pending
    /\ ok => TableExists(CurBaseId, CurTableId)
    /\ UNCHANGED <<sseVars, histVars, impl, env, req, writes, known, record, bases, bi, tables>>
    /\ IF ~ok
       THEN IF req.name = "list_records"
            THEN /\ Throw(req.name, ApiError)
                 /\ Done("page")
                 /\ UNCHANGED <<results, failedTables, ti, records, ri, listVars>>
            ELSE ThrowInSearchRecords("page", ApiError)
       ELSE LET response == BackendPage(CurBaseId, CurTableId, ListQuery(ListOptions, offset))
                all == allRecords \o response.records
            IN  /\ allRecords' = all
                /\ offset' = response.offset
                /\ IF response.offset # 0
                   THEN /\ Goto("listPage")
                        /\ IssueNext("page", <<Call("page", CurBaseId, CurTableId, <<>>)>>)
                        /\ UNCHANGED <<results, failedTables, ti, records, ri>>
                   ELSE /\ Done("page")
                        /\ UNCHANGED <<failedTables, ti, results>>
                        /\ CASE req.name = "search" /\ impl = "dist" ->
                                  Goto("recordLoop") /\ records' = all /\ ri' = 1
                             [] req.name = "search" ->
                                  /\ Reply(Items([i \in 1..Len(all) |->
                                        DraftSearchItem(CurBaseId, tables[ti], all[i])]), FALSE)
                                  /\ records' = all
                                  /\ ri' = ri
                             [] OTHER ->
                                  Reply(Items(all), FALSE) /\ records' = all /\ ri' = ri

\* mutant: each item is put in front of the items collected so far
recordLoopNewestFirst ==
    /\ pc = "recordLoop"
    /\ UNCHANGED <<sseVars, histVars, impl, env, req, writes, known, listVars, record, failedTables, bases, bi,
                   tables, records, calls, pending>>
    /\ IF ri > Len(records) \/ GreaterEq(Len(results), maxTotalResults)
       THEN Goto("tableLoop") /\ ti' = ti + 1 /\ UNCHANGED <<results, ri>>
       ELSE /\ Goto("recordLoop")
            /\ results' = <<SearchItem(bases[bi], tables[ti], records[ri])>> \o results
            /\ ri' = ri + 1
            /\ ti' = ti

\* dist search: one iteration of `for (const r of records)`
recordLoop ==
    /\ pc = "recordLoop"
    /\ UNCHANGED <<sseVars, histVars, impl, env, req, writes, known, listVars, record, failedTables, bases, bi,
                   tables, records, calls, pending>>
    /\ IF ri > Len(records) \/ GreaterEq(Len(results), maxTotalResults)
       THEN Goto("tableLoop") /\ ti' = ti + 1 /\ UNCHANGED <<results, ri>>
       ELSE /\ Goto("recordLoop")
            /\ results' = Append(results, SearchItem(bases[bi], tables[ti], records[ri]))
            /\ ri' = ri + 1
            /\ ti' = ti

\* mutant: the payload is built as soon as the record has arrived, from
\* whatever schema has arrived by then
fetchReturnRecordFirst(op, ok) ==
    /\ pc = "fetchAll"
    /\ op \in pending
    /\ LET parts == Split(req.args.id.v, ":")
       IN  /\ ok => IF op = "getRecord" THEN RecordExists(parts[1], parts[2], parts[3])
                    ELSE BaseExists(parts[1])
           /\ UNCHANGED <<sseVars, histVars, impl, env, req, writes, known, listVars, results,
                          failedTables, bases, bi, ti, records, ri>>
           /\ Done(op)
           /\ IF ~ok
              THEN Throw(req.name, ApiError) /\ UNCHANGED <<record, tables>>
              ELSE /\ record' = IF op = "getRecord"
                                THEN [has |-> TRUE, r |-> GetRecord(parts[1], parts[2], parts[3])]
                                ELSE record
                   /\ tables' = IF op = "getBaseSchema" THEN Tables(parts[1]) ELSE tables
                   /\ IF op = "getRecord"
                      THEN Reply(ObjData(FetchPayload(parts, record'.r, tables')), FALSE)
                      ELSE Goto("fetchAll")

\* dist fetch: one of the two lookups of Promise.all completes
fetchReturn(op, ok) ==
    /\ pc = "fetchAll"
    /\ op \in pending
    /\ LET parts == Split(req.args.id.v, ":")
       IN  /\ ok => IF op = "getRecord" THEN RecordExists(parts[1], parts[2], parts[3])
                    ELSE BaseExists(parts[1])
           /\ UNCHANGED <<sseVars, histVars, impl, env, req, writes, known, listVars, results, failedTables, bases,
                          bi, ti, records, ri>>
           /\ Done(op)
           /\ IF ~ok
              THEN Throw(req.name, ApiError) /\ UNCHANGED <<record, tables>>
              ELSE /\ record' = IF op = "getRecord"
                                THEN [has |-> TRUE, r |-> GetRecord(parts[1], parts[2], parts[3])]
                                ELSE record
                   /\ tables' = IF op = "getBaseSchema" THEN Tables(parts[1]) ELSE tables
                   /\ IF pending \ {op} = {}
                      THEN Reply(ObjData(FetchPayload(parts, record'.r, tables')), FALSE)
                      ELSE Goto("fetchAll")

\* the response of a lookup whose handler has already returned is dropped
lateReturn(op) ==
    /\ pc \in {"done", "resDone"}
    /\ op \in pending
    /\ pending' = pending \ {op}
    /\ UNCHANGED <<sseVars, histVars, impl, env, req, writes, known, listVars, record, searchVars, pc, resp, thrown,
                   calls, known>>

\* the transport sends the result to the client; the handler's locals are gone
deliver ==
    /\ pc \in {"done", "resDone"}
    /\ pending = {}
    /\ pc' = "idle"
    /\ known' = SearchIds(req.name, resp)
    /\ req' = NoReq
    /\ resp' = NoResp
    /\ thrown' = <<>>
    /\ calls' = <<>>
    /\ pending' = {}
    /\ results' = <<>>
    /\ failedTables' = {}
    /\ bases' = <<>>
    /\ bi' = 0
    /\ tables' = <<>>
    /\ ti' = 0
    /\ records' = <<>>
    /\ ri' = 0
    /\ allRecords' = <<>>
    /\ offset' = 0
    /\ record' = NoRecord
    /\ last' = IF req.name = "fetch" /\ IsString(req.args.id)
               THEN [has |-> TRUE, id |-> req.args.id.v, envelope |-> resp.envelope,
                     thrown |-> thrown]
               ELSE NoLast
    /\ listed' = ListedUris(out)
    /\ out' = NoOut
    /\ UNCHANGED <<impl, env, writes, sseVars>>

\* src fetch and get_record: await getRecord completes
getRecordReturn(ok) ==
    /\ pc = "getRecord"
    /\ "getRecord" \in pending
    /\ ok => RecordExists(calls[1].base, calls[1].table, calls[1].rec)
    /\ UNCHANGED <<sseVars, histVars, impl, env, req, writes, known, listVars, searchVars>>
    /\ Done("getRecord")
    /\ IF ~ok
       THEN Throw(req.name, ApiError) /\ UNCHANGED record
       ELSE LET r == GetRecord(calls[1].base, calls[1].table, calls[1].rec)
            IN  /\ record' = [has |-> TRUE, r |-> r]
                /\ IF req.name = "fetch"
                   THEN Reply(ObjData(DraftFetchPayload(Split(req.args.id.v, ":"), r)), FALSE)
                   ELSE Reply(ObjData([id |-> r.id, fields |-> r.fields]), FALSE)

\* a mutating tool: await of its service operation completes
mutateReturn(ok) ==
    /\ pc = "mutate"
    /\ pending # {}
    /\ ok => TableExists(calls[1].base, calls[1].table) \/ calls[1].op = "createTable"
    /\ UNCHANGED <<sseVars, histVars, impl, env, req, known, listVars, searchVars, record>>
    /\ calls' = calls
    /\ pending' = {}
    /\ IF ~ok
       THEN Throw(req.name, ApiError) /\ writes' = writes
       ELSE /\ writes' = writes + 1
            /\ Reply(ObjData([op |-> calls[1].op, base |-> calls[1].base,
                              table |-> calls[1].table]), FALSE)

\* zodToJsonSchema(z.object({...})): an object schema with a $schema key that
\* allows no additional properties
ArgsJsonSchema == [type |-> "object", dollarSchema |-> TRUE, additionalProperties |-> "false"]

\* an inputSchema written out in handleListTools
LiteralSchema == [type |-> "object", dollarSchema |-> FALSE, additionalProperties |-> "false"]

\* getInputSchema: keeps the schema, deletes $schema and additionalProperties
getInputSchema(jsonSchema) ==
    [jsonSchema EXCEPT !.type = "object", !.dollarSchema = FALSE,
                       !.additionalProperties = "absent"]

\* inputSchema of the descriptor of a tool in the listing of dispatcher i
InputSchema(i, name) ==
    IF i = "full" /\ name # "list_bases" THEN getInputSchema(ArgsJsonSchema)
    ELSE LiteralSchema

\* ------------------------------------------------------------------------
\* tools/list and the resource handlers
\* ------------------------------------------------------------------------
\* mutant: the last tool of the full set is not advertised
ListedToolsShort(i) ==
    IF i = "full"
    THEN <<"list_records", "search_records", "list_bases", "list_tables", "describe_table",
           "get_record", "create_record", "update_records", "delete_records",
           "create_table", "update_table", "create_field">>
    ELSE <<"search", "fetch">>

\* names of the tools handleListTools returns, in the order of its array
ListedTools(i) ==
    IF i = "full"
    THEN <<"list_records", "search_records", "list_bases", "list_tables", "describe_table",
           "get_record", "create_record", "update_records", "delete_records",
           "create_table", "update_table", "create_field", "update_field">>
    ELSE <<"search", "fetch">>

\* a request other than tools/call starts: nothing of the tool call is touched
StartRequest(name, args, origin) ==
    /\ pc = "idle"
    /\ req' = [name |-> name, args |-> args, origin |-> origin]
    /\ thrown' = <<>>
    /\ resp' = NoResp
    /\ known' = {}
    /\ last' = NoLast
    /\ listed' = {}
    /\ UNCHANGED <<impl, env, writes, searchVars, listVars, record, sseVars>>

handleListTools ==
    /\ StartRequest("tools/list", NoArgs, "none")
    /\ pc' = "resDone"
    /\ out' = [kind |-> "tools", tools |-> ListedTools(impl),
               schemas |-> [i \in 1..Len(ListedTools(impl)) |->
                              InputSchema(impl, ListedTools(impl)[i])]]
    /\ NoCall

handleListResources ==
    /\ StartRequest("resources/list", NoArgs, "none")
    /\ pc' = "resListBases"
    /\ out' = NoOut
    /\ Issue(<<>>, {}, <<Call("listBases", <<>>, <<>>, <<>>)>>)

\* handleListResources: await listBases() completes; the schema of every base
\* is requested at once (Promise.all over bases.map)
resListBasesReturn(outcome) ==
    /\ pc = "resListBases"
    /\ "listBases" \in pending
    /\ UNCHANGED <<sseVars, impl, env, req, writes, known, last, listed, listVars, record,
                   results, failedTables, bi, tables, ti, records, ri, resp, thrown>>
    /\ IF outcome = "fail"
       THEN /\ out' = Raised(ApiError)
            /\ pc' = "resDone"
            /\ Done("listBases")
            /\ bases' = bases
       ELSE LET bs == IF outcome = "empty" THEN <<>> ELSE Bases
            IN  /\ bases' = bs
                /\ IF bs = <<>>
                   THEN /\ out' = [kind |-> "resources", resources |-> <<>>]
                        /\ pc' = "resDone"
                        /\ Done("listBases")
                   ELSE /\ out' = out
                        /\ pc' = "resSchemas"
                        /\ calls' = calls \o [i \in 1..Len(bs) |->
                                                Call("getBaseSchema", bs[i].id, <<>>, <<>>)]
                        /\ pending' = {SchemaOps[i] : i \in 1..Len(bs)}

\* handleListResources: the schema of the i-th base arrives, or its request
\* fails and Promise.all rejects
resSchemaReturn(i, ok) ==
    /\ pc = "resSchemas"
    /\ i \in 1..Len(bases)
    /\ SchemaOps[i] \in pending
    /\ ok => BaseExists(bases[i].id)
    /\ UNCHANGED <<sseVars, impl, env, req, writes, known, last, listed, listVars, record,
                   searchVars, resp, thrown>>
    /\ Done(SchemaOps[i])
    /\ IF ~ok
       THEN out' = Raised(ApiError) /\ pc' = "resDone"
       ELSE IF pending \ {SchemaOps[i]} = {}
       THEN out' = [kind |-> "resources", resources |-> ResourcesOf(bases)] /\ pc' = "resDone"
       ELSE out' = out /\ pc' = pc

handleReadResource(uri) ==
    /\ StartRequest("resources/read", [NoArgs EXCEPT !.uri = StrS(uri)],
                    IF uri \in listed THEN "list" ELSE "none")
    /\ LET match == MatchResourceUri(uri)
       IN  IF ~match.ok
           THEN out' = Raised(InvalidResourceUri) /\ pc' = "resDone" /\ NoCall
           ELSE /\ out' = NoOut
                /\ pc' = "resRead"
                /\ Issue(<<>>, {}, <<Call("getBaseSchema", match.baseId, <<>>, <<>>)>>)

\* handleReadResource: await getBaseSchema(baseId) completes
readSchemaReturn(ok) ==
    /\ pc = "resRead"
    /\ "getBaseSchema" \in pending
    /\ LET match == MatchResourceUri(req.args.uri.v)
           tbls == Tables(match.baseId)
           i == FindTable(tbls, match.tableId)
       IN  /\ ok => BaseExists(match.baseId)
           /\ pc' = "resDone"
           /\ out' = IF ~ok THEN Raised(ApiError)
                     ELSE IF i = 0 THEN Raised(TableNotFound(match.tableId, match.baseId))
                     ELSE [kind |-> "contents",
                           contents |-> << [uri |-> req.args.uri.v,
                                            mimeType |-> "application/json",
                                            text |-> JSONstringify(
                                               TableDescriptor(match.baseId, tbls[i]))] >>]
    /\ Done("getBaseSchema")
    /\ UNCHANGED <<sseVars, impl, env, req, writes, known, last, listed, listVars, record,
                   searchVars, resp, thrown>>

Next ==
    \/ \E name \in ToolNames : \E args \in ArgsOf(name) : handleCallTool(name, args)
    \/ \E outcome \in {"fail", "empty", "ok"} : listBasesReturn(outcome)
    \/ baseLoop
    \/ \E ok \in BOOLEAN : getBaseSchemaReturn(ok)
    \/ tableLoop
    \/ \E ok \in BOOLEAN : validateReturn(ok)
    \/ \E ok \in BOOLEAN : listPageReturn(ok)
    \/ recordLoop
    \/ \E op \in {"getRecord", "getBaseSchema"} : \E ok \in BOOLEAN : fetchReturn(op, ok)
    \/ \E op \in {"getRecord", "getBaseSchema"} \cup Range(SchemaOps) : lateReturn(op)
    \/ \E ok \in BOOLEAN : getRecordReturn(ok)
    \/ \E ok \in BOOLEAN : mutateReturn(ok)
    \/ deliver
    \/ handleListTools
    \/ handleListResources
    \/ \E outcome \in {"fail", "empty", "ok"} : resListBasesReturn(outcome)
    \/ \E i \in 1..Len(SchemaOps) : \E ok \in BOOLEAN : resSchemaReturn(i, ok)
    \/ \E uri \in FixedUris \cup listed : handleReadResource(uri)
    \/ \E ok \in BOOLEAN : readSchemaReturn(ok)

Spec == Init /\ [][Next]_vars

\* ------------------------------------------------------------------------
\* api/sse.ts: the handler of the SSE endpoint
\* ------------------------------------------------------------------------
toolVars ==
    <<impl, env, req, callVars, searchVars, listVars, record, writes, known, histVars>>

\* the response of session s closes: the 'close' listeners attached so far run
CloseEvent(s) ==
    transports' = IF sess[s].listener /\ ~sess[s].closed
                  THEN transports \ {s} ELSE transports

\* res.status(500).send(...) and return: the response ends and closes
Send500(s) ==
    /\ sess' = [sess EXCEPT ![s] = [@ EXCEPT !.pc = "ended", !.closed = TRUE,
                                               !.status = 500]]
    /\ CloseEvent(s)

\* GET: the API key check, then the dynamic imports are awaited
handlerGET(s) ==
    /\ sess[s].pc = "none"
    /\ \A t \in Sessions : t < s => sess[t].pc # "none"
    /\ IF ~TruthyKey(apiKeyEnv)
       THEN Send500(s)
       ELSE /\ sess' = [sess EXCEPT ![s] = [@ EXCEPT !.pc = "import"]]
            /\ transports' = transports
    /\ UNCHANGED <<toolVars, apiKeyEnv, post>>

\* the imports resolve: new AirtableService(apiKey), then the connectivity
\* test listBases() is awaited; a throw reaches the outer catch
importReturn(s) ==
    /\ sess[s].pc = "import"
    /\ IF ~constructor(apiKeyEnv, apiKeyEnv).ok
       THEN Send500(s)
       ELSE /\ sess' = [sess EXCEPT ![s] = [@ EXCEPT !.pc = "listBases"]]
            /\ transports' = transports
    /\ UNCHANGED <<toolVars, apiKeyEnv, post>>

\* the connectivity test completes: the transport is created and registered,
\* the cleanup listener is attached and mcpServer.connect(transport) is awaited
connectivityTestReturn(s, ok) ==
    /\ sess[s].pc = "listBases"
    /\ IF ~ok
       THEN Send500(s)
       ELSE /\ transports' = transports \cup {s}
            /\ sess' = [sess EXCEPT ![s] = [@ EXCEPT !.pc = "connect", !.listener = TRUE]]
    /\ UNCHANGED <<toolVars, apiKeyEnv, post>>

\* mcpServer.connect(transport) completes; res.write, then the handler attaches
\* listeners for 'close' and 'error' and waits.  When the response has closed
\* already, 'close' is not emitted again; whether the write to the closed
\* response emits 'error' depends on the runtime
connectReturn(s, ok) ==
    /\ sess[s].pc = "connect"
    /\ IF ~ok
       THEN Send500(s)
       ELSE /\ \E writeError \in {FALSE, sess[s].closed} :
                 sess' = [sess EXCEPT ![s] =
                            [@ EXCEPT !.pc = IF writeError THEN "ended" ELSE "open",
                                      !.status = 200]]
            /\ transports' = transports
    /\ UNCHANGED <<toolVars, apiKeyEnv, post>>

\* the client disconnects: 'close' is emitted once on the response
responseClose(s) ==
    /\ sess[s].pc \in {"import", "listBases", "connect", "open"}
    /\ ~sess[s].closed
    /\ CloseEvent(s)
    /\ sess' = [sess EXCEPT ![s] = [@ EXCEPT !.closed = TRUE,
                                               !.pc = IF @ = "open" THEN "ended" ELSE @]]
    /\ UNCHANGED <<toolVars, apiKeyEnv, post>>

\* POST: routing by the sessionId of the query; handled is the status that
\* handlePostMessage of the transport sends
handlerPOST(sid, handled) ==
    /\ post' = [sid |-> sid,
                status |-> IF sid = NoSessionId THEN 204
                           ELSE IF sid \notin transports THEN 404
                           ELSE handled,
                registered |-> sid \in transports,
                closed |-> sid \in Sessions /\ sess[sid].closed]
    /\ sid \notin transports => handled = 202
    /\ UNCHANGED <<toolVars, apiKeyEnv, transports, sess>>

InitSSE ==
    /\ impl = "dist"
    /\ env = [MCP_SEARCH_BASE_IDS |-> <<>>, MCP_SEARCH_MAX_TOTAL |-> EnvUnset,
              MCP_SEARCH_PER_TABLE_LIMIT |-> EnvUnset]
    /\ HandlerIdle
    /\ apiKeyEnv \in Keys
    /\ SseIdle

NextSSE ==
    \/ \E s \in Sessions : handlerGET(s)
    \/ \E s \in Sessions : importReturn(s)
    \/ \E s \in Sessions : \E ok \in BOOLEAN : connectivityTestReturn(s, ok)
    \/ \E s \in Sessions : \E ok \in BOOLEAN : connectReturn(s, ok)
    \/ \E s \in Sessions : responseClose(s)
    \/ \E sid \in PostIds : \E handled \in {202, 400, 500} : handlerPOST(sid, handled)

SpecSSE == InitSSE /\ [][NextSSE]_vars

\* the awaited imports, the connectivity test and mcpServer.connect settle,
\* and the event loop then resumes the handler; nothing forces a client to
\* disconnect or to post
SpecSSEFair ==
    /\ SpecSSE
    /\ \A s \in Sessions :
          /\ WF_vars(importReturn(s))
          /\ WF_vars(\E ok \in BOOLEAN : connectivityTestReturn(s, ok))
          /\ WF_vars(\E ok \in BOOLEAN : connectReturn(s, ok))

\* ------------------------------------------------------------------------
\* Properties
\* ------------------------------------------------------------------------
Envelope == resp.envelope
Text == Envelope.content[1].text
Data == Text.json

\* msg ends with the message tail
EndsWith(msg, tail) ==
    /\ Len(msg) >= Len(tail)
    /\ SubSeq(msg, Len(msg) - Len(tail) + 1, Len(msg)) = tail

WellFormedEnvelope ==
    /\ resp.status = "returned"
    /\ Len(Envelope.content) = 1
    /\ Envelope.content[1].type = "text"
    /\ DOMAIN Text = {"json"}
    /\ Data.kind \in {"msg", "items", "obj"}
    /\ Envelope.isError \in BOOLEAN

\* C1 as stated: every call returns a well-formed envelope, nothing escapes
\* handleCallTool, and whenever anything downstream threw (a swallowed table
\* search included) the envelope has isError true.
C1_AnyThrowIsError ==
    /\ resp.status \in {"none", "returned"}
    /\ pc = "done" =>
         /\ WellFormedEnvelope
         /\ (thrown # <<>> \/ failedTables # {}) => Envelope.isError
         /\ thrown # <<>> => Data.kind = "msg" /\ EndsWith(Data.msg, thrown)

\* C1 amended: every call returns a well-formed envelope, nothing escapes
\* handleCallTool, and whenever an exception reaches the try block of
\* handleCallTool (every throw but one inside a table search of search, which
\* the per-table catch swallows) the envelope has isError true and its text
\* carries the thrown message.
C1_EnvelopeAlways ==
    /\ resp.status \in {"none", "returned"}
    /\ pc = "done" =>
         /\ WellFormedEnvelope
         /\ thrown # <<>> =>
              /\ Envelope.isError
              /\ Data.kind = "msg"
              /\ EndsWith(Data.msg, thrown)
              /\ Data.msg[2] = req.name

C1_Witness ==
    /\ pc = "done"
    /\ thrown = ApiError
    /\ Envelope.isError
    /\ calls # <<>>

\* C2: in the dist search the number of collected items never exceeds the
\* configured maximum total, at every step of the accumulation and in the
\* returned list.
C2_TotalCap ==
    (impl = "dist" /\ ~maxTotalResults.nan) =>
        /\ Len(results) <= maxTotalResults.n
        /\ (pc = "done" /\ req.name = "search") => Len(Data.items) <= maxTotalResults.n

\* the cap is reached while records of the current table are still unvisited
C2_Witness ==
    /\ impl = "dist"
    /\ pc = "recordLoop"
    /\ ~maxTotalResults.nan
    /\ maxTotalResults.n > 0
    /\ Len(results) = maxTotalResults.n
    /\ ri <= Len(records)

\* what the search has to return, given the tables whose search failed
EligibleBases ==
    SelectSeq(bases, LAMBDA b : Len(AllowList) = 0 \/ b.id \in Range(AllowList))

ExpectedHits(b, t) ==
    LET hits == SelectSeq(TableRecords(b.id, t.id), LAMBDA r : Matches(r, req.args.query.v))
    IN  IF TruthyNum(perTableLimit) THEN Take(hits, perTableLimit.n) ELSE hits

ExpectedOfTable(b, t) ==
    LET hits == ExpectedHits(b, t)
    IN  [i \in 1..Len(hits) |-> SearchItem(b, t, hits[i])]

RECURSIVE ExpectedOfTables(_, _, _)
ExpectedOfTables(b, tbls, failed) ==
    IF tbls = <<>> THEN <<>>
    ELSE (IF Head(tbls).id \in failed THEN <<>> ELSE ExpectedOfTable(b, Head(tbls)))
         \o ExpectedOfTables(b, Tail(tbls), failed)

RECURSIVE ExpectedOfBases(_, _)
ExpectedOfBases(bs, failed) ==
    IF bs = <<>> THEN <<>>
    ELSE ExpectedOfTables(Head(bs), Tables(Head(bs).id), failed)
         \o ExpectedOfBases(Tail(bs), failed)

ExpectedItems ==
    LET all == ExpectedOfBases(EligibleBases, failedTables)
    IN  IF maxTotalResults.nan THEN all ELSE Take(all, maxTotalResults.n)

LastCallOp == IF calls = <<>> THEN "" ELSE calls[Len(calls)].op

\* C3: a dist search that ends without a failure of listBases or of the base
\* loop's getBaseSchema returns a success envelope also when table searches
\* failed; the failed tables contribute no item and the result is exactly what
\* the other eligible tables contribute, up to the caps.
C3_TableFailureSwallowed ==
    (/\ pc = "done"
     /\ impl = "dist"
     /\ req.name = "search"
     /\ calls # <<>>
     /\ thrown = <<>> \/ LastCallOp \in {"schemaForSearch", "page"}) =>
        /\ ~Envelope.isError
        /\ Data.kind = "items"
        /\ Data.items = ExpectedItems
        /\ \A i \in 1..Len(Data.items) : Split(Data.items[i].id, ":")[2] \notin failedTables

\* the first table failed and the second one contributed its two records
C3_Witness ==
    /\ pc = "done"
    /\ impl = "dist"
    /\ req.name = "search"
    /\ tbl1 \in failedTables
    /\ ~Envelope.isError
    /\ Len(Data.items) = 2
    /\ \A i \in 1..Len(Data.items) : Split(Data.items[i].id, ":")[2] = tbl2

\* items under construction and items of a successful search response
ItemsSoFar ==
    IF pc = "done" /\ req.name = "search" /\ ~Envelope.isError THEN Data.items ELSE results

\* C4: the id of every search item splits on ':' into exactly three parts naming
\* a record of the store, and a fetch of such an id that meets no backend
\* failure succeeds with metadata equal to the first two parts and the record
\* named by the third part.
C4_IdRoundTrip ==
    /\ \A i \in 1..Len(ItemsSoFar) :
         LET parts == Split(ItemsSoFar[i].id, ":")
         IN  Len(parts) = 3 /\ RecordExists(parts[1], parts[2], parts[3])
    /\ (pc = "done" /\ req.name = "fetch" /\ req.origin = "search" /\ thrown = <<>>) =>
         LET parts == Split(req.args.id.v, ":")
         IN  /\ ~Envelope.isError
             /\ Data.kind = "obj"
             /\ Data.obj.metadata = [baseId |-> parts[1], tableId |-> parts[2]]
             /\ Data.obj.id = parts[3]
             /\ \E k \in 1..Len(calls) :
                  calls[k] = Call("getRecord", parts[1], parts[2], parts[3])

C4_Witness ==
    /\ pc = "done"
    /\ req.name = "fetch"
    /\ req.origin = "search"
    /\ ~Envelope.isError
    /\ Data.obj.id = rec4

\* number of collected items that come from table t
ItemsFromTable(t) ==
    Cardinality({i \in 1..Len(results) : Split(results[i].id, ":")[2] = t})

\* C5: in the dist search no table contributes more items than the configured
\* per-table limit, for every configured limit value.
C5_PerTableCap ==
    (impl = "dist" /\ ~perTableLimit.nan) =>
        \A t \in AllTableIds : ItemsFromTable(t) <= perTableLimit.n

\* C6: a fetch whose id does not split on ':' into exactly three parts returns
\* the invalid id format error with isError true and issues no call to the
\* record store.
C6_InvalidIdRejected ==
    (/\ pc = "done"
     /\ impl \in {"dist", "src"}
     /\ req.name = "fetch"
     /\ req.args.obj
     /\ req.args.id.t = "string"
     /\ Len(Split(req.args.id.v, ":")) # 3) =>
        /\ resp.status = "returned"
        /\ Envelope.isError
        /\ Data = Msg(InvalidIdFormat)
        /\ calls = <<>>
        /\ pending = {}

C6_Witness ==
    /\ pc = "done"
    /\ req.name = "fetch"
    /\ req.args.id = StrS(<<"n", "o", "t">>)
    /\ Envelope.isError
    /\ Data.kind = "msg"

\* tools of the active profile
ProfileTools == IF impl = "full" THEN FullTools ELSE MinimalTools

\* C7: a call of a name that is not a tool of the active profile returns
\* isError true with a message containing "Unknown tool: <name>" and issues no
\* call to the record store.
C7_UnknownTool ==
    (pc = "done" /\ req.name \notin ProfileTools) =>
        /\ resp.status = "returned"
        /\ Envelope.isError
        /\ Data.kind = "msg"
        /\ EndsWith(Data.msg, <<"Unknown tool: ", req.name>>)
        /\ calls = <<>>
        /\ pending = {}

C7_Witness ==
    /\ pc = "done"
    /\ req.name = "delete_everything"
    /\ Envelope.isError
    /\ thrown # <<>>

\* a required argument is missing or is not a string
SchemaViolation(name, args) ==
    CASE name = "search" -> ~args.obj \/ args.query.t # "string"
      [] name = "fetch" -> ~args.obj \/ args.id.t # "string"
      [] name = "list_bases" -> FALSE
      [] OTHER -> ~args.obj \/ \E k \in RequiredKeys(name) : args[k].t # "string"

\* C8: a call of a known tool whose arguments fail the tool's input validation
\* ends at once with an isError envelope; no call to the record store is issued
\* for it and nothing escapes.
C8_ValidationFirst ==
    (req.name \in ProfileTools /\ SchemaViolation(req.name, req.args)) =>
        /\ pc = "done"
        /\ resp.status = "returned"
        /\ Envelope.isError
        /\ calls = <<>>
        /\ pending = {}

C8_Witness ==
    /\ pc = "done"
    /\ req.name = "search"
    /\ req.args.query = NumS
    /\ thrown = ZodError
    /\ Envelope.isError

\* C9: with a non-empty allow-list a search issues calls only for allow-listed
\* bases and returns only items of allow-listed bases; with an empty allow-list
\* a search that is not cut short by the total cap or an error fetches the
\* schema of every listed base.
C9_AllowList ==
    (req.name = "search" /\ impl \in {"dist", "src"}) =>
        /\ Len(AllowList) > 0 =>
             /\ \A k \in 1..Len(calls) :
                  calls[k].op # "listBases" => calls[k].base \in Range(AllowList)
             /\ \A i \in 1..Len(ItemsSoFar) :
                  Split(ItemsSoFar[i].id, ":")[1] \in Range(AllowList)
        /\ (/\ Len(AllowList) = 0
            /\ pc = "done"
            /\ ~Envelope.isError
            /\ ~GreaterEq(Len(Data.items), maxTotalResults)) =>
             \A b \in 1..Len(bases) :
               \E k \in 1..Len(calls) :
                 calls[k] = Call("getBaseSchema", bases[b].id, <<>>, <<>>)

\* C10: the text snippet of every search item is non-empty and at most 400
\* characters long.
C10_SnippetBounds ==
    \A i \in 1..Len(ItemsSoFar) :
        ItemsSoFar[i].text.len >= 1 /\ ItemsSoFar[i].text.len <= SnippetMax

\* a truncated snippet and the JSON dump of a record without fields
C10_Witness ==
    /\ impl = "dist"
    /\ \E i \in 1..Len(results) :
         /\ Split(results[i].id, ":")[3] = rec1
         /\ results[i].text.len = SnippetMax
    /\ \E i \in 1..Len(results) :
         /\ Split(results[i].id, ":")[3] = rec2
         /\ results[i].text.json
         /\ results[i].text.len = 2

\* ------------------------------------------------------------------------
\* C11: fetch is idempotent
\* ------------------------------------------------------------------------
\* a lookup failed although what it looks up is in the store
BackendFailed(id, t) ==
    LET parts == Split(id, ":")
    IN  /\ t = ApiError
        /\ Len(parts) = 3
        /\ RecordExists(parts[1], parts[2], parts[3])

\* C11: when a fetch is repeated with the same id, and in neither call the
\* backend failed on data the store holds, the second call returns the same
\* envelope as the first (same isError, title, text and metadata), in
\* whichever order the record lookup and the schema lookup complete
C11_FetchIdempotent ==
    (/\ pc = "done"
     /\ req.name = "fetch"
     /\ last.has
     /\ ~BackendFailed(last.id, thrown)
     /\ ~BackendFailed(last.id, last.thrown))
    => resp.envelope = last.envelope

\* a repeated fetch of an existing record has returned its payload, the
\* schema having arrived before the record
C11_Witness ==
    /\ pc = "done"
    /\ impl = "dist"
    /\ req.name = "fetch"
    /\ last.has
    /\ ~Envelope.isError
    /\ Data.kind = "obj"
    /\ Data.obj.title.primary
    /\ Data.obj.metadata.baseId = app1
    /\ ~last.envelope.isError

\* ------------------------------------------------------------------------
\* C12: search_records with a requested field that is not text-like
\* ------------------------------------------------------------------------
\* the field names requested that are not names of text-like fields of table
NotTextLike(table, names) ==
    SelectSeq(names, LAMBDA n :
        ~\E i \in 1..Len(table.fields) :
            table.fields[i].name = n /\ table.fields[i].type \in searchableFieldTypes)

\* a finished search_records call whose arguments pass the schema and name,
\* for a table that has text-like fields, a field that is not one of them
InvalidFieldsRequested ==
    /\ pc = "done"
    /\ impl = "full"
    /\ req.name = "search_records"
    /\ ~SchemaViolation(req.name, req.args)
    /\ req.args.fieldIds.t = "array"
    /\ BaseExists(req.args.baseId.v)
    /\ LET tbls == Tables(req.args.baseId.v)
       IN  \E i \in 1..Len(tbls) :
              /\ tbls[i].id = req.args.tableId.v
              /\ \E j \in 1..Len(tbls[i].fields) :
                     tbls[i].fields[j].type \in searchableFieldTypes
              /\ NotTextLike(tbls[i], req.args.fieldIds.v) # <<>>

TablesReported ==
    /\ pc = "done"
    /\ impl = "full"
    /\ req.name \in {"list_tables", "describe_table"}
    /\ ~Envelope.isError

\* the tables reported, and the tables of the store they report
ReportedViews == IF req.name = "list_tables" THEN Data.items ELSE <<Data.obj>>
ReportedTables ==
    LET tbls == Tables(req.args.baseId.v)
    IN  IF req.name = "list_tables" THEN tbls
        ELSE SelectSeq(tbls, LAMBDA t : t.id = req.args.tableId.v)

\* C13: with detailLevel "tableIdentifiersOnly" every reported table has only
\* the keys id and name; with detailLevel absent or "full" every reported
\* table is the complete description (id, name, description, fields, views)
C13_DetailLevel ==
    TablesReported =>
        /\ Len(ReportedViews) = Len(ReportedTables)
        /\ \A i \in 1..Len(ReportedViews) :
              LET v == ReportedViews[i]
                  t == ReportedTables[i]
              IN  /\ req.args.detailLevel = StrS("tableIdentifiersOnly") =>
                        /\ DOMAIN v = {"id", "name"}
                        /\ v.id = t.id
                        /\ v.name = t.name
                  /\ (req.args.detailLevel.t = "absent" \/ req.args.detailLevel = StrS("full")) =>
                        v = [id |-> t.id, name |-> t.name, description |-> t.description,
                             fields |-> t.fields, views |-> t.views]

\* list_tables with detailLevel "tableIdentifiersOnly" has reported the two
\* tables of the first base
C13_Witness ==
    /\ TablesReported
    /\ req.name = "list_tables"
    /\ req.args.detailLevel = StrS("tableIdentifiersOnly")
    /\ Len(Data.items) = 2
    /\ Data.items[1].id = tbl1

\* describe_table without detailLevel has reported the complete table
C13_WitnessAbsent ==
    /\ TablesReported
    /\ req.name = "describe_table"
    /\ req.args.detailLevel.t = "absent"
    /\ Len(Data.obj.fields) > 0

\* ------------------------------------------------------------------------
\* C14: the tool registry
\* ------------------------------------------------------------------------
\* C14: whatever calls came before, tools/list returns exactly search and
\* fetch in the minimal profile and exactly the 13 tools of the full profile,
\* each name once; and a call is answered "Unknown tool" exactly when its
\* name is not one tools/list advertises in that profile
C14_Registry ==
    /\ out.kind = "tools" =>
         LET expected ==
               IF impl = "full"
               THEN {"list_bases", "list_tables", "describe_table", "list_records",
                     "search_records", "get_record", "create_record", "update_records",
                     "delete_records", "create_table", "update_table", "create_field",
                     "update_field"}
               ELSE {"search", "fetch"}
         IN  /\ Range(out.tools) = expected
             /\ Len(out.tools) = Cardinality(expected)
    /\ pc = "done" =>
         ((Len(thrown) > 0 /\ thrown[1] = "Unknown tool: ")
            <=> req.name \notin Range(ListedTools(impl)))

\* the full profile lists its tools after a mutating call has been performed
C14_Witness ==
    /\ out.kind = "tools"
    /\ impl = "full"
    /\ Len(out.tools) = 13
    /\ writes > 0

\* a tool of the full profile that is advertised last was dispatched
C14_WitnessDispatch ==
    /\ pc = "done"
    /\ impl = "full"
    /\ req.name = "update_field"
    /\ ~Envelope.isError

\* ------------------------------------------------------------------------
\* C15: resource list / read round trip
\* ------------------------------------------------------------------------
\* the URI airtable://<b>/<t>/schema, written out
UriOf(b, t) ==
    <<"a", "i", "r", "t", "a", "b", "l", "e", ":", "/", "/">> \o b \o <<"/">> \o t
      \o <<"/", "s", "c", "h", "e", "m", "a">>

\* the pairs (base id, table) of the store, for the bases a listing saw
RECURSIVE PairsOf(_)
PairsOf(bs) ==
    IF bs = <<>> THEN <<>>
    ELSE LET tbls == Tables(Head(bs).id)
         IN  [i \in 1..Len(tbls) |-> [b |-> Head(bs).id, t |-> tbls[i]]] \o PairsOf(Tail(bs))

\* C15: a resource listing emits one descriptor per table of every listed
\* base, with the URI airtable://<baseId>/<tableId>/schema; and reading a URI
\* that a listing emitted, the backend not failing, returns the descriptor
\* (baseId, tableId, name, description, primaryFieldId, fields, views) of
\* exactly the table it was emitted for
C15_ResourceRoundTrip ==
    /\ out.kind = "resources" =>
         LET pairs == PairsOf(bases)
         IN  /\ Len(out.resources) = Len(pairs)
             /\ \A i \in 1..Len(pairs) :
                   out.resources[i].uri = UriOf(pairs[i].b, pairs[i].t.id)
    /\ (/\ pc = "resDone"
        /\ req.name = "resources/read"
        /\ req.origin = "list"
        /\ out # Raised(ApiError))
       => \E k \in 1..Len(PairsOf(Bases)) :
             LET p == PairsOf(Bases)[k]
             IN  /\ req.args.uri.v = UriOf(p.b, p.t.id)
                 /\ out.kind = "contents"
                 /\ Len(out.contents) = 1
                 /\ out.contents[1].uri = req.args.uri.v
                 /\ out.contents[1].text.json =
                       [baseId |-> p.b, tableId |-> p.t.id, name |-> p.t.name,
                        description |-> p.t.description,
                        primaryFieldId |-> p.t.primaryFieldId,
                        fields |-> p.t.fields, views |-> p.t.views]

\* a URI emitted by a listing was read back and gave the third table
C15_Witness ==
    /\ pc = "resDone"
    /\ req.name = "resources/read"
    /\ req.origin = "list"
    /\ out.kind = "contents"
    /\ out.contents[1].text.json.baseId = app2
    /\ out.contents[1].text.json.tableId = tbl3

\* ------------------------------------------------------------------------
\* C16: not-found errors are enveloped
\* ------------------------------------------------------------------------
\* a finished resource read whose URI names no table of the store, the
\* backend not failing
ReadOfNoTable ==
    /\ pc = "resDone"
    /\ req.name = "resources/read"
    /\ out # Raised(ApiError)
    /\ ~\E k \in 1..Len(PairsOf(Bases)) :
          req.args.uri.v = UriOf(PairsOf(Bases)[k].b, PairsOf(Bases)[k].t.id)

\* a finished describe_table whose table is not in the schema of its base
DescribeOfNoTable ==
    /\ pc = "done"
    /\ impl = "full"
    /\ req.name = "describe_table"
    /\ ~SchemaViolation(req.name, req.args)
    /\ thrown # ApiError
    /\ ~TableExists(req.args.baseId.v, req.args.tableId.v)

\* C16: a resource read whose URI does not parse, or whose table is missing,
\* is answered with an isError envelope and not by raising an exception, as
\* describe_table for a missing table is
C16_NotFoundEnveloped ==
    /\ DescribeOfNoTable => Envelope.isError
    /\ ReadOfNoTable => (out.kind = "envelope" /\ out.envelope.isError)

\* ------------------------------------------------------------------------
\* C17: a missing credential
\* ------------------------------------------------------------------------
\* absent, empty or made of spaces only
BlankKey(k) == ~k.set \/ \A i \in 1..Len(k.v) : k.v[i] = " "

\* C17: the constructor of the service throws for an absent, empty or
\* whitespace-only credential; and while the credential of the environment is
\* blank no session is ever registered, no server is connected to a
\* transport, and every GET that was answered was answered 500 (at once when
\* the credential is unset)
C17_MissingCredential ==
    /\ \A k \in Keys : BlankKey(k) => ~constructor(k, KeyUnset).ok
    /\ BlankKey(apiKeyEnv) =>
         /\ transports = {}
         /\ \A s \in Sessions :
               /\ sess[s].pc \in {"none", "import", "ended"}
               /\ ~sess[s].listener
               /\ sess[s].pc = "ended" => sess[s].status = 500
               /\ ~apiKeyEnv.set => sess[s].pc # "import"

\* with the credential unset a GET was answered 500, and a POST for its
\* session found nothing registered
C17_Witness ==
    /\ ~apiKeyEnv.set
    /\ sess[1].pc = "ended"
    /\ sess[1].status = 500
    /\ post.sid = 1
    /\ post.status = 404

\* with a whitespace-only credential the GET got as far as the constructor
C17_WitnessBlank ==
    /\ apiKeyEnv = Key(<<" ">>)
    /\ sess[1].pc = "ended"
    /\ sess[1].status = 500

\* ------------------------------------------------------------------------
\* C18, C19: the transport registry and the routing of POST
\* ------------------------------------------------------------------------
\* C18: a session whose GET response has closed is not in the registry, and
\* a POST that arrives for it after the close is answered 404
C18_RegistryOnlyWhileOpen ==
    /\ \A s \in Sessions : sess[s].closed => s \notin transports
    /\ (post.status # 0 /\ post.sid \in Sessions /\ post.closed) => post.status = 404

\* C19: a POST whose sessionId is missing or is not the id of a registered
\* session is answered 400 and leaves the registry unchanged
C19_PostWithoutSession ==
    [][(post' # post /\ ~post'.registered) =>
          (post'.status = 400 /\ transports' = transports)]_vars

\* ------------------------------------------------------------------------
\* C20: early stop of the search
\* ------------------------------------------------------------------------
\* a search of dist/mcpServer.js is running and its results have reached the
\* configured maximum
TotalReached ==
    /\ impl = "dist"
    /\ req.name = "search"
    /\ pc \notin {"idle", "done"}
    /\ maxTotalResults.def
    /\ ~maxTotalResults.nan
    /\ Len(results) >= maxTotalResults.n

\* C20: once the results of a search have reached the configured maximum, no
\* further call (getBaseSchema, searchRecords and its requests) is issued to
\* the record store and no further item is appended
C20_EarlyStop ==
    [][TotalReached => (calls' = calls /\ results' = results)]_vars

\* ------------------------------------------------------------------------
\* C21: within one search call the record-store calls are strictly
\* sequential: at most one backend request is outstanding, it is the one
\* issued last, and the loops only advance when none is outstanding.
\* ------------------------------------------------------------------------
C21_Sequential ==
    (req.name = "search" /\ impl \in {"dist", "src"}) =>
        /\ Cardinality(pending) <= 1
        /\ pending # {} => calls # <<>> /\ calls[Len(calls)].op \in pending
        /\ pc \in {"baseLoop", "tableLoop", "recordLoop", "done"} => pending = {}

\* the second page of a table is outstanding, after four earlier requests
C21_Witness ==
    /\ req.name = "search"
    /\ impl = "dist"
    /\ pc = "listPage"
    /\ offset # 0
    /\ pending = {"page"}
    /\ Len(SelectSeq(calls, LAMBDA c : c.op \notin CompositeOps)) >= 5

\* ------------------------------------------------------------------------
\* C22: the items of a search are ordered by base listing order, then table
\* order within the base, then the order of the records the backend returned
\* for the table; the items of one table are a prefix of that table's batch.
\* ------------------------------------------------------------------------
RECURSIVE Concat(_)
Concat(ss) == IF ss = <<>> THEN <<>> ELSE Head(ss) \o Concat(Tail(ss))

\* <<base, table, record>> of every record of the store, in the order in which
\* the backend lists bases, tables and records
StoreOrder ==
    Concat([i \in 1..Len(Bases) |->
        Concat([j \in 1..Len(Tables(Bases[i].id)) |->
            LET b == Bases[i].id
                t == Tables(b)[j].id
                rs == TableRecords(b, t)
            IN  [k \in 1..Len(rs) |-> <<b, t, rs[k].id>>]])])

\* position of a record in StoreOrder, 0 when the store has no such record
Rank(key) ==
    IF \E n \in 1..Len(StoreOrder) : StoreOrder[n] = key
    THEN CHOOSE n \in 1..Len(StoreOrder) : StoreOrder[n] = key
    ELSE 0

ItemKey(i) == Split(ItemsSoFar[i].id, ":")

\* how many of the first i items come from the table of item i
PlaceInTable(i) ==
    Cardinality({j \in 1..i : /\ ItemKey(j)[1] = ItemKey(i)[1]
                              /\ ItemKey(j)[2] = ItemKey(i)[2]})

C22_ResultOrder ==
    (req.name = "search" /\ impl \in {"dist", "src"} /\ IsString(req.args.query)) =>
        /\ \A i \in 1..Len(ItemsSoFar) : Rank(ItemKey(i)) > 0
        /\ \A i, j \in 1..Len(ItemsSoFar) : i < j => Rank(ItemKey(i)) < Rank(ItemKey(j))
        /\ \A i \in 1..Len(ItemsSoFar) :
              LET hits == SelectSeq(TableRecords(ItemKey(i)[1], ItemKey(i)[2]),
                                    LAMBDA r : Matches(r, req.args.query.v))
              IN  /\ PlaceInTable(i) <= Len(hits)
                  /\ hits[PlaceInTable(i)].id = ItemKey(i)[3]

\* a successful search returned items of both bases, several of one table
C22_Witness ==
    /\ pc = "done"
    /\ impl = "dist"
    /\ req.name = "search"
    /\ ~Envelope.isError
    /\ \E i \in 1..Len(Data.items) : ItemKey(i)[1] = app1 /\ PlaceInTable(i) >= 2
    /\ \E i \in 1..Len(Data.items) : ItemKey(i)[1] = app2 /\ PlaceInTable(i) >= 2

\* ------------------------------------------------------------------------
\* C23: the snippet of every search item is built from at most 8 fields.
\* ------------------------------------------------------------------------
C23_SnippetFieldCap ==
    (req.name = "search" /\ impl = "dist") =>
        \A i \in 1..Len(ItemsSoFar) : Len(ItemsSoFar[i].text.names) <= MaxExtraFields

\* ------------------------------------------------------------------------
\* C24: the fields of a snippet come in priority order: the primary field
\* first when the record has it, then the hint names the record has in the
\* order of the hint list, then other non-empty fields in record order; no
\* name occurs twice, also when the primary field's name is a hint name.
\* ------------------------------------------------------------------------
ItemTable(i) ==
    LET tbls == Tables(ItemKey(i)[1])
    IN  tbls[FindTable(tbls, ItemKey(i)[2])]

ItemFields(i) == GetRecord(ItemKey(i)[1], ItemKey(i)[2], ItemKey(i)[3]).fields

\* 0 for the primary field, 1..9 for a hint name, above that by record position
PriorityRank(name, primary, fields) ==
    IF name = primary THEN 0
    ELSE IF name \in Range(HintFieldNames)
    THEN CHOOSE n \in 1..Len(HintFieldNames) : HintFieldNames[n] = name
    ELSE Len(HintFieldNames) + (CHOOSE n \in 1..Len(fields) : fields[n].name = name)

C24_SnippetOrder ==
    (req.name = "search" /\ impl = "dist") =>
        \A i \in 1..Len(ItemsSoFar) :
            LET names == ItemsSoFar[i].text.names
                fields == ItemFields(i)
                primary == PrimaryFieldName(ItemTable(i))
                has == {fields[n].name : n \in 1..Len(fields)}
            IN  /\ Range(names) \subseteq has
                /\ \A m, n \in 1..Len(names) :
                      m < n => PriorityRank(names[m], primary, fields)
                                 < PriorityRank(names[n], primary, fields)
                /\ (has \cap ({primary} \cup Range(HintFieldNames))) \subseteq Range(names)
                /\ \A n \in 1..Len(names) :
                      names[n] \notin ({primary} \cup Range(HintFieldNames))
                          => stringify(FieldVal(fields, names[n])) > 0

\* a snippet that starts with a primary field whose name is also a hint name
\* and goes on with a hint field and another field
C24_Witness ==
    /\ req.name = "search"
    /\ impl = "dist"
    /\ \E i \in 1..Len(ItemsSoFar) :
          LET names == ItemsSoFar[i].text.names
              primary == PrimaryFieldName(ItemTable(i))
          IN  /\ primary \in Range(HintFieldNames)
              /\ Len(names) >= 3
              /\ names[1] = primary
              /\ names[2] \in Range(HintFieldNames)
              /\ names[3] \notin Range(HintFieldNames)

\* ------------------------------------------------------------------------
\* C25: when the getBaseSchema of the search's base loop fails, the whole
\* call returns an error envelope and none of the items collected from
\* earlier bases.
\* ------------------------------------------------------------------------
BaseSchemaFailed ==
    /\ pc = "done"
    /\ impl = "dist"
    /\ req.name = "search"
    /\ LastCallOp = "getBaseSchema"
    /\ thrown = ApiError

C25_SchemaFailureFailsCall ==
    BaseSchemaFailed =>
        /\ Envelope.isError
        /\ Data.kind = "msg"
        /\ Data = Msg(ErrorText("search", ApiError))

\* the schema of a later base failed after items of an earlier base were collected
C25_Witness ==
    /\ BaseSchemaFailed
    /\ bi > 1
    /\ Len(results) > 0
    /\ Envelope.isError

\* ------------------------------------------------------------------------
\* C26: a fetch with a well-formed id issues getRecord and getBaseSchema
\* before either has completed, returns a success envelope only after both
\* have completed, and returns an error envelope when either fails, in every
\* order of completion.
\* ------------------------------------------------------------------------
FetchLookups == {"getRecord", "getBaseSchema"}

C26_FetchConcurrent ==
    (impl = "dist" /\ req.name = "fetch" /\ calls # <<>>) =>
        /\ [i \in 1..Len(calls) |-> calls[i].op] = <<"getRecord", "getBaseSchema">>
        /\ pending \subseteq FetchLookups
        /\ pc = "fetchAll" =>
              /\ pending # {}
              /\ thrown = <<>>
              /\ "getRecord" \in pending <=> ~record.has
              /\ "getBaseSchema" \in pending <=> tables = <<>>
        /\ (pc = "done" /\ ~Envelope.isError) =>
              /\ pending = {}
              /\ record.has
              /\ tables = Tables(calls[2].base)
        /\ pc = "done" => (Envelope.isError <=> thrown = ApiError)

\* the schema arrived first, then the record lookup failed
C26_Witness ==
    /\ impl = "dist"
    /\ req.name = "fetch"
    /\ pc = "done"
    /\ thrown = ApiError
    /\ Envelope.isError
    /\ tables # <<>>
    /\ ~record.has
    /\ pending = {}

\* the record arrived first and the schema lookup completed the payload
C26_WitnessRecordFirst ==
    /\ impl = "dist"
    /\ req.name = "fetch"
    /\ pc = "fetchAll"
    /\ record.has
    /\ pending = {"getBaseSchema"}

\* ------------------------------------------------------------------------
\* C27: listRecords requests pages one at a time, the first without a cursor
\* and each later one with the offset of the previous response, stops at the
\* first response without an offset and returns the pages concatenated in
\* order; a failing page fails the call without a partial record set.
\* ------------------------------------------------------------------------
\* everything the backend holds for the query of the listRecords in progress
WholeList ==
    LET all == TableRecords(CurBaseId, CurTableId)
        hits == IF ListOptions.term = "" THEN all
                ELSE SelectSeq(all, LAMBDA r : Matches(r, ListOptions.term))
    IN  IF TruthyNum(ListOptions.maxRecords) THEN Take(hits, ListOptions.maxRecords.n)
        ELSE hits

\* page requests made by the listRecords call logged last
RECURSIVE PagesAtEnd(_)
PagesAtEnd(cs) ==
    IF cs = <<>> \/ cs[Len(cs)].op # "page" THEN 0
    ELSE 1 + PagesAtEnd(SubSeq(cs, 1, Len(cs) - 1))

PagesNeeded(n) == IF n = 0 THEN 1 ELSE (n + PageSize - 1) \div PageSize

C27_Pagination ==
    /\ pc = "listPage" =>
          /\ pending = {"page"}
          /\ offset = Len(allRecords)
          /\ allRecords = Take(WholeList, offset)
          /\ offset = 0 \/ offset < Len(WholeList)
          /\ PagesAtEnd(calls) = offset \div PageSize + 1
    /\ (pc = "done" /\ req.name = "list_records" /\ calls # <<>>) =>
          IF thrown = <<>>
          THEN /\ ~Envelope.isError
               /\ Data.items = WholeList
               /\ PagesAtEnd(calls) = PagesNeeded(Len(WholeList))
          ELSE /\ Envelope.isError
               /\ Data.kind = "msg"
               /\ PagesAtEnd(calls) <= PagesNeeded(Len(WholeList))

\* list_records returned three records that took two pages
C27_Witness ==
    /\ pc = "done"
    /\ req.name = "list_records"
    /\ ~Envelope.isError
    /\ PagesAtEnd(calls) = 2
    /\ Len(Data.items) > PageSize

\* the second page failed after the first had delivered records
C27_WitnessFailure ==
    /\ pc = "done"
    /\ req.name = "list_records"
    /\ thrown = ApiError
    /\ PagesAtEnd(calls) = 2
    /\ Len(allRecords) > 0
    /\ Envelope.isError

\* ------------------------------------------------------------------------
\* C28: every descriptor tools/list returns, in the minimal and in the full
\* profile, has an inputSchema of type object that declares that additional
\* properties are not allowed.
\* ------------------------------------------------------------------------
C28_ClosedSchemas ==
    out.kind = "tools" =>
        \A i \in 1..Len(out.schemas) :
            /\ out.schemas[i].type = "object"
            /\ out.schemas[i].additionalProperties = "false"

\* ------------------------------------------------------------------------
\* C29: in the minimal profile no tool call, whatever its name and arguments
\* and whatever was called before, invokes a mutating operation of the record
\* store client: only listBases, getBaseSchema, searchRecords / listRecords
\* and getRecord are called, and nothing is ever written.
\* ------------------------------------------------------------------------
ReadOps ==
    {"listBases", "getBaseSchema", "searchRecords", "schemaForSearch", "listRecords", "page",
     "getRecord"}

C29_MinimalReadOnly ==
    impl \in {"dist", "src"} =>
        /\ writes = 0
        /\ \A i \in 1..Len(calls) : calls[i].op \notin MutatingOps
        /\ req.name \in ToolNames => \A i \in 1..Len(calls) : calls[i].op \in ReadOps
        /\ pending \cap MutatingOps = {}

\* a minimal-profile server answered a call that names a mutating tool
C29_Witness ==
    /\ impl \in {"dist", "src"}
    /\ pc = "done"
    /\ req.name \in MutatingTools
    /\ calls = <<>>
    /\ Envelope.isError
    /\ writes = 0

\* ------------------------------------------------------------------------
\* C30: every GET that established a session eventually returns once the
\* client has disconnected, at whatever point of the handler the disconnect
\* happened, also while the server was still connecting the transport.
\* ------------------------------------------------------------------------
C30_ReturnsAfterDisconnect ==
    \A s \in Sessions :
        (sess[s].listener /\ sess[s].closed) ~> (sess[s].pc = "ended")

====
